---- MODULE Spec2Model ----
(***************************************************************************)
(* Model of the intelligent job assistant: the job-matching and            *)
(* recommendation engine (src/ai_agent/recommendations.py, JobRecommender),*)
(* the intent classifier (src/ai_agent/intent_classifier.py) and the chat  *)
(* agent with its sessions (src/ai_agent/agent.py, JobAssistantAgent).     *)
(*                                                                         *)
(* Python strings are TLA+ strings over the characters listed below; the   *)
(* string methods the engine uses (lower, title, strip, split, the `in`    *)
(* substring test, the regular expressions) are operators that compute     *)
(* what Python computes on those characters.  Python floats are exact      *)
(* rationals <<numerator, denominator>> in lowest terms: float rounding is *)
(* not modelled, so a sum that is exactly 0.3 here can be a float one unit *)
(* in the last place above 0.3 there (0.2 + 0.1).  None is the empty tuple *)
(* <<>> where a float is optional, and the string NoneStr where a string   *)
(* field is missing.                                                       *)
(***************************************************************************)
EXTENDS Integers, Sequences, FiniteSets, TLC

VARIABLES
    call,    \* the call under way: its operation and its arguments
    ret,     \* the value the call returned (None before it returns)
    exc,     \* the exception that left the call ("" when none did)
    locals,  \* the local variables of the call when it returned
    pc,      \* "called" before the operation runs, "returned" after
    self,    \* the fields of the object the operations are methods of
    history  \* the calls that finished before the call under way, in order

vars == <<call, ret, exc, locals, pc, self, history>>

None == <<>>
NoneStr == "<None>"

(***************************************************************************)
(* Characters and the str methods                                          *)
(***************************************************************************)
UpperAlpha == "ABCDEFGHIJKLMNOPQRSTUVWXYZ"
LowerAlpha == "abcdefghijklmnopqrstuvwxyz"
DigitChars == "0123456789"

Chars(s) == {SubSeq(s, i, i) : i \in 1..Len(s)}

UpperSet == Chars(UpperAlpha)
LowerSet == Chars(LowerAlpha)
DigitSet == Chars(DigitChars)
SpaceSet == {" "}
\* a lower-case letter outside a-z whose title-case form is two letters, Ss
\* (so are the ligatures of text taken from PDF files, whose form is Fi, Fl)
SharpS == "ß"
\* \w of the re module
WordSet == UpperSet \cup LowerSet \cup DigitSet \cup {"_", SharpS}

IndexIn(c, alpha) == CHOOSE i \in 1..Len(alpha) : SubSeq(alpha, i, i) = c

LowerOf == [c \in UpperSet |-> SubSeq(LowerAlpha, IndexIn(c, UpperAlpha), IndexIn(c, UpperAlpha))]
UpperOf == [c \in LowerSet |-> SubSeq(UpperAlpha, IndexIn(c, LowerAlpha), IndexIn(c, LowerAlpha))]
DigitVal == [c \in DigitSet |-> IndexIn(c, DigitChars) - 1]

\* s[i] counted from 1, "" outside the string
At(s, i) == IF i \in 1..Len(s) THEN SubSeq(s, i, i) ELSE ""

LowerChar(c) == IF c \in UpperSet THEN LowerOf[c] ELSE c
\* the title-case form of c
UpperChar(c) == IF c \in LowerSet THEN UpperOf[c] ELSE IF c = SharpS THEN "Ss" ELSE c
IsCased(c) == c \in UpperSet \cup LowerSet \cup {SharpS}

\* str.lower()
RECURSIVE Lower(_)
Lower(s) ==
    IF Len(s) <= 1 THEN LowerChar(s)
    ELSE Lower(SubSeq(s, 1, Len(s) \div 2)) \o Lower(SubSeq(s, Len(s) \div 2 + 1, Len(s)))

\* str.title(): a cased character is upper-cased when the character before it
\* is not cased, and lower-cased otherwise
RECURSIVE TitleFrom(_, _)
TitleFrom(s, prevCased) ==
    IF s = "" THEN ""
    ELSE LET c == At(s, 1)
         IN (IF prevCased THEN LowerChar(c) ELSE UpperChar(c))
                \o TitleFrom(Tail(s), IsCased(c))

Title(s) == TitleFrom(s, FALSE)

\* needle in hay
Contains(needle, hay) ==
    \E i \in 1..(Len(hay) - Len(needle) + 1) :
        SubSeq(hay, i, i + Len(needle) - 1) = needle

\* hay[i:].startswith(lit), i counted from 1
StartsAt(hay, i, lit) ==
    /\ i + Len(lit) - 1 <= Len(hay)
    /\ SubSeq(hay, i, i + Len(lit) - 1) = lit

\* length of the longest run of characters of class cls starting at s[i]
RECURSIVE RunLen(_, _, _)
RunLen(s, i, cls) ==
    IF i > Len(s) \/ At(s, i) \notin cls THEN 0 ELSE 1 + RunLen(s, i + 1, cls)

\* str.strip()
RECURSIVE LStrip(_)
LStrip(s) == IF s # "" /\ At(s, 1) \in SpaceSet THEN LStrip(Tail(s)) ELSE s
RECURSIVE RStrip(_)
RStrip(s) ==
    IF s # "" /\ At(s, Len(s)) \in SpaceSet THEN RStrip(SubSeq(s, 1, Len(s) - 1)) ELSE s
Strip(s) == RStrip(LStrip(s))

\* str.split(): the whitespace-separated words, in order
RECURSIVE Split(_)
Split(s) ==
    LET t == LStrip(s)
        n == RunLen(t, 1, Chars(t) \ SpaceSet)
    IN IF t = "" THEN <<>>
       ELSE <<SubSeq(t, 1, n)>> \o Split(SubSeq(t, n + 1, Len(t)))

\* float(digits)
RECURSIVE ParseInt(_)
ParseInt(d) ==
    IF d = "" THEN 0
    ELSE 10 * ParseInt(SubSeq(d, 1, Len(d) - 1)) + DigitVal[At(d, Len(d))]

\* str.replace(old, new) for a one-character old
RECURSIVE Replace(_, _, _)
Replace(s, old, new) ==
    IF s = "" THEN ""
    ELSE (IF At(s, 1) = old THEN new ELSE At(s, 1)) \o Replace(Tail(s), old, new)

Range(f) == {f[i] : i \in DOMAIN f}

\* [f(x) for x in seq]
MapLower(seq) == [i \in DOMAIN seq |-> Lower(seq[i])]

\* seq[:n] for n >= 0
Prefix(seq, n) == SubSeq(seq, 1, IF n < Len(seq) THEN n ELSE Len(seq))

(***************************************************************************)
(* Floats as exact rationals <<n, d>>, d > 0, in lowest terms              *)
(***************************************************************************)
RECURSIVE Gcd(_, _)
Gcd(a, b) == IF b = 0 THEN a ELSE Gcd(b, a % b)

Abs(a) == IF a < 0 THEN -a ELSE a

Rat(n, d) ==
    LET g == Gcd(Abs(n), d)
    IN <<n \div g, d \div g>>

RAdd(x, y) == Rat(x[1] * y[2] + y[1] * x[2], x[2] * y[2])
RSub(x, y) == Rat(x[1] * y[2] - y[1] * x[2], x[2] * y[2])
RMul(x, y) == Rat(x[1] * y[1], x[2] * y[2])
\* x / y for y > 0
RDiv(x, y) == Rat(x[1] * y[2], x[2] * y[1])
RLe(x, y) == x[1] * y[2] <= y[1] * x[2]
RLt(x, y) == x[1] * y[2] < y[1] * x[2]
RMin(x, y) == IF RLe(x, y) THEN x ELSE y
RMax(x, y) == IF RLe(x, y) THEN y ELSE x

Zero == Rat(0, 1)
One == Rat(1, 1)

(***************************************************************************)
(* The outcome of a call: the value returned, or the exception raised      *)
(***************************************************************************)
Returned(value) == [exc |-> "", value |-> value]
Raised(name) == [exc |-> name, value |-> None]

(***************************************************************************)
(* Job (src/models/job.py): the fields the engine reads                    *)
(***************************************************************************)
Job(id, title, company, location, experience, skills, description) ==
    [job_id |-> id, title |-> title, company |-> company, location |-> location,
     experience |-> experience, skills |-> skills, description |-> description]

\* truth value of a str field that may be None
Truthy(s) == s # "" /\ s # NoneStr

get_mock_jobs ==
    << Job("mock_1", "Senior Software Engineer", "TechCorp Solutions",
           "Bangalore, Karnataka", "5-8 years",
           <<"Python", "React", "AWS", "SQL">>,
           "We are looking for a talented software engineer with Python and React experience"),
       Job("mock_2", "Data Scientist", "DataTech Inc",
           "Mumbai, Maharashtra", "3-6 years",
           <<"Python", "Machine Learning", "SQL", "Statistics">>,
           "Join our data science team to build ML models and analyze data"),
       Job("mock_3", "Full Stack Developer", "StartupXYZ",
           "Remote", "2-5 years",
           <<"JavaScript", "Node.js", "React", "MongoDB">>,
           "Build scalable web applications using modern technologies") >>

(***************************************************************************)
(* calculate_experience_match                                              *)
(***************************************************************************)
\* re.search(r"(\d+)[-+](\d+)?", s): the start of the leftmost match, 0 when
\* there is none.  \d+ is greedy, so a match starts a run of digits that a
\* sign follows.
YearsMatchStart(s) ==
    LET starts == {i \in 1..Len(s) :
                     /\ At(s, i) \in DigitSet
                     /\ At(s, i + RunLen(s, i, DigitSet)) \in {"-", "+"}}
    IN IF starts = {} THEN 0 ELSE CHOOSE i \in starts : \A j \in starts : i <= j

\* a range with no explicit maximum requires min + 2 years
JobYearsOpenRangePlusTwo(job_experience) ==
    LET lo == Lower(job_experience)
        i == YearsMatchStart(job_experience)
        n == RunLen(job_experience, i, DigitSet)
        m == RunLen(job_experience, i + n + 1, DigitSet)
        min_years == Rat(ParseInt(SubSeq(job_experience, i, i + n - 1)), 1)
    IN IF Contains("entry", lo) \/ Contains("junior", lo) THEN Rat(1, 1)
       ELSE IF Contains("mid", lo) \/ Contains("intermediate", lo) THEN Rat(3, 1)
       ELSE IF Contains("senior", lo) THEN Rat(7, 1)
       ELSE IF Contains("lead", lo) \/ Contains("principal", lo) THEN Rat(10, 1)
       ELSE IF i # 0 /\ m > 0
       THEN RDiv(RAdd(min_years, Rat(ParseInt(SubSeq(job_experience, i + n + 1, i + n + m)), 1)),
                 Rat(2, 1))
       ELSE IF i # 0 THEN RAdd(min_years, Rat(2, 1))
       ELSE Rat(5, 1)

\* job_years of calculate_experience_match
JobYears(job_experience) ==
    LET lo == Lower(job_experience)
        i == YearsMatchStart(job_experience)
        n == RunLen(job_experience, i, DigitSet)
        m == RunLen(job_experience, i + n + 1, DigitSet)
        min_years == Rat(ParseInt(SubSeq(job_experience, i, i + n - 1)), 1)
        max_years == IF m > 0
                     THEN Rat(ParseInt(SubSeq(job_experience, i + n + 1, i + n + m)), 1)
                     ELSE RAdd(min_years, Rat(2, 1))
    IN IF Contains("entry", lo) \/ Contains("junior", lo) THEN Rat(1, 1)
       ELSE IF Contains("mid", lo) \/ Contains("intermediate", lo) THEN Rat(3, 1)
       ELSE IF Contains("senior", lo) THEN Rat(7, 1)
       ELSE IF Contains("lead", lo) \/ Contains("principal", lo) THEN Rat(10, 1)
       ELSE IF i # 0 THEN RDiv(RAdd(min_years, max_years), Rat(2, 1))
       ELSE Rat(5, 1)

\* no branch for the overqualified candidate: the ratio resume/job years
ExperienceMatchNoOverqualifiedBranch(resume_years, job_experience) ==
    LET job_years == JobYears(job_experience)
    IN IF job_years = Zero THEN Rat(1, 2)
       ELSE RMax(Zero, RSub(One, RDiv(RSub(job_years, resume_years), job_years)))

\* the distance from the required years counts in both directions
ExperienceMatchSymmetric(resume_years, job_experience) ==
    LET job_years == JobYears(job_experience)
        gap == IF RLe(job_years, resume_years) THEN RSub(resume_years, job_years)
               ELSE RSub(job_years, resume_years)
    IN IF job_years = Zero THEN Rat(1, 2)
       ELSE RMax(Zero, RSub(One, RDiv(gap, job_years)))

\* the falloff is a tenth for each missing year, whatever the job requires
ExperienceMatchTenthPerYear(resume_years, job_experience) ==
    LET job_years == JobYears(job_experience)
    IN IF RLe(job_years, resume_years) THEN One
       ELSE RMax(Zero, RSub(One, RDiv(RSub(job_years, resume_years), Rat(10, 1))))

calculate_experience_match(resume_years, job_experience) ==
    LET job_years == JobYears(job_experience)
    IN IF RLe(job_years, resume_years) THEN One
       ELSE IF job_years = Zero THEN Rat(1, 2)   \* ZeroDivisionError, caught
       ELSE RMax(Zero, RSub(One, RDiv(RSub(job_years, resume_years), job_years)))

(***************************************************************************)
(* calculate_location_match                                                *)
(***************************************************************************)
\* the remote/hybrid preferences tested before the two loops
LocationMatchPreferencesFirst(job_location, preferred_locations) ==
    LET job_location_lower == Lower(job_location)
    IN IF "remote" \in Range(preferred_locations)
             /\ Contains("remote", job_location_lower)
       THEN One
       ELSE IF "hybrid" \in Range(preferred_locations)
                  /\ Contains("hybrid", job_location_lower)
       THEN Rat(8, 10)
       ELSE IF \E k \in DOMAIN preferred_locations :
                  Contains(Lower(preferred_locations[k]), job_location_lower)
       THEN One
       ELSE IF \E k \in DOMAIN preferred_locations :
                  \E word \in Range(Split(Lower(preferred_locations[k]))) :
                      Contains(word, job_location_lower)
       THEN Rat(7, 10)
       ELSE Zero

\* the work modes compared without regard to case, before the word loop
LocationMatchModesIgnoringCase(job_location, preferred_locations) ==
    LET job_location_lower == Lower(job_location)
        modes == {Lower(preferred_locations[k]) : k \in DOMAIN preferred_locations}
    IN IF \E k \in DOMAIN preferred_locations :
              /\ Lower(preferred_locations[k]) # "hybrid"
              /\ Contains(Lower(preferred_locations[k]), job_location_lower)
       THEN One
       ELSE IF "hybrid" \in modes /\ Contains("hybrid", job_location_lower)
       THEN Rat(8, 10)
       ELSE IF \E k \in DOMAIN preferred_locations :
                  \E word \in Range(Split(Lower(preferred_locations[k]))) :
                      Contains(word, job_location_lower)
       THEN Rat(7, 10)
       ELSE Zero

calculate_location_match(job_location, preferred_locations) ==
    LET job_location_lower == Lower(job_location)
    IN IF \E k \in DOMAIN preferred_locations :
              Contains(Lower(preferred_locations[k]), job_location_lower)
       THEN One
       ELSE IF \E k \in DOMAIN preferred_locations :
                  \E word \in Range(Split(Lower(preferred_locations[k]))) :
                      Contains(word, job_location_lower)
       THEN Rat(7, 10)
       ELSE IF "remote" \in Range(preferred_locations)
                  /\ Contains("remote", job_location_lower)
       THEN One
       ELSE IF "hybrid" \in Range(preferred_locations)
                  /\ Contains("hybrid", job_location_lower)
       THEN Rat(8, 10)
       ELSE Zero

(***************************************************************************)
(* calculate_job_match_score                                               *)
(***************************************************************************)
SkillWeight == Rat(4, 10)
ExperienceWeight == Rat(3, 10)
LocationWeight == Rat(2, 10)
DescriptionWeight == Rat(1, 10)

\* skill_matches / len(skills)
SkillScore(job, skills) ==
    LET skill_matches ==
            Cardinality({k \in DOMAIN skills :
                            Lower(skills[k]) \in Range(MapLower(job.skills))})
    IN Rat(skill_matches, Len(skills))

\* desc_matches / len(skills)
DescScore(job, skills) ==
    LET desc_matches ==
            Cardinality({k \in DOMAIN skills :
                            Contains(Lower(skills[k]), Lower(job.description))})
    IN Rat(desc_matches, Len(skills))

\* the sub-scores computed by one call; None marks a sub-score whose branch
\* was not taken
SubScores(job, skills, experience_years, preferred_locations) ==
    [skill_score |-> IF skills # <<>> /\ job.skills # <<>>
                     THEN SkillScore(job, skills) ELSE None,
     exp_score |-> IF experience_years # None /\ experience_years # Zero
                        /\ Truthy(job.experience)
                   THEN calculate_experience_match(experience_years, job.experience)
                   ELSE None,
     location_score |-> IF preferred_locations # <<>>
                        THEN calculate_location_match(job.location, preferred_locations)
                        ELSE None,
     desc_score |-> IF skills # <<>> /\ Truthy(job.description)
                    THEN DescScore(job, skills) ELSE None]

Weighted(sub, weight) == IF sub = None THEN Zero ELSE RMul(sub, weight)

\* score just before `return min(score, 1.0)`, from the sub-scores
UncappedScore(sub) ==
    RAdd(RAdd(RAdd(Weighted(sub.skill_score, SkillWeight),
                   Weighted(sub.exp_score, ExperienceWeight)),
              Weighted(sub.location_score, LocationWeight)),
         Weighted(sub.desc_score, DescriptionWeight))

\* job_location.lower() on a job without a location raises AttributeError
MatchScoreRaises(job, preferred_locations) ==
    preferred_locations # <<>> /\ job.location = NoneStr

\* the local variables of calculate_job_match_score at its return statement
MatchScoreFrame(job, skills, experience_years, preferred_locations) ==
    LET Frame(sub) == sub @@ [score |-> UncappedScore(sub)]
    IN Frame(SubScores(job, skills, experience_years, preferred_locations))

\* a score kept in percent: the weighted sum times 100, capped at 100
MatchScorePercent(job, skills, experience_years, preferred_locations) ==
    RMin(RMul(MatchScoreFrame(job, skills, experience_years, preferred_locations).score,
              Rat(100, 1)),
         Rat(100, 1))

\* the weights of the sub-scores that were computed, renormalised to sum to 1
MatchScoreRenormalised(job, skills, experience_years, preferred_locations) ==
    LET f == MatchScoreFrame(job, skills, experience_years, preferred_locations)
        W(sub, weight) == IF sub = None THEN Zero ELSE weight
        total == RAdd(RAdd(RAdd(W(f.skill_score, SkillWeight),
                                W(f.exp_score, ExperienceWeight)),
                           W(f.location_score, LocationWeight)),
                      W(f.desc_score, DescriptionWeight))
    IN IF total = Zero THEN Zero ELSE RMin(RDiv(f.score, total), One)

calculate_job_match_score(job, skills, experience_years, preferred_locations) ==
    RMin(MatchScoreFrame(job, skills, experience_years, preferred_locations).score, One)

(***************************************************************************)
(* Regular expressions: a position is an index into the string, 0 when the *)
(* match has failed.  Every quantifier below is followed by an element     *)
(* that cannot match what the quantifier gives up, so the greedy match is  *)
(* the only one (the location patterns, where that is not so, are treated  *)
(* separately).                                                            *)
(***************************************************************************)
\* a literal
AfterLit(s, i, lit) == IF i # 0 /\ StartsAt(s, i, lit) THEN i + Len(lit) ELSE 0
\* c?
AfterOpt(s, i, c) == IF i = 0 THEN 0 ELSE IF At(s, i) = c THEN i + 1 ELSE i
\* cls+
AfterSome(s, i, cls) ==
    IF i = 0 \/ RunLen(s, i, cls) = 0 THEN 0 ELSE i + RunLen(s, i, cls)
\* cls*
AfterAny(s, i, cls) == IF i = 0 THEN 0 ELSE i + RunLen(s, i, cls)
\* years?
AfterYears(s, i) == AfterOpt(s, AfterLit(s, i, "year"), "s")

\* the least element of a non-empty set of positions
Least(S) == CHOOSE i \in S : \A j \in S : i <= j

(***************************************************************************)
(* extract_skills_from_text                                                *)
(***************************************************************************)
technical_skills ==
    << "python", "java", "javascript", "typescript", "react", "angular", "vue",
       "node.js", "express", "django", "flask", "spring", "sql", "mongodb",
       "postgresql", "mysql", "aws", "azure", "gcp", "docker", "kubernetes",
       "git", "github", "jenkins", "ci/cd", "agile", "scrum", "jira",
       "machine learning", "ml", "ai", "artificial intelligence", "data science",
       "data analysis", "statistics", "r", "matlab", "tensorflow", "pytorch",
       "scikit-learn", "pandas", "numpy", "matplotlib", "seaborn",
       "html", "css", "bootstrap", "tailwind", "sass", "less",
       "php", "ruby", "go", "rust", "c++", "c#", ".net", "asp.net",
       "devops", "linux", "unix", "bash", "shell scripting", "powershell",
       "microservices", "api", "rest", "graphql", "soap", "xml", "json",
       "testing", "unit testing", "integration testing", "tdd", "bdd",
       "design patterns", "oop", "functional programming", "clean code" >>

skill_patterns ==
    <<"programming", "development", "framework", "library", "tool", "technology">>

MaxSkillsReturned == 20

\* clean_skill of the first loop
CleanSkill(k) == Title(Replace(technical_skills[k], "/", " "))

\* the first loop: the vocabulary terms found in text_lower, in vocabulary
\* order and title case; a term whose clean form was appended before is
\* not appended again
VocabularySkills(text_lower) ==
    LET Found(k) == Contains(technical_skills[k], text_lower)
        Appended(k) ==
            Found(k) /\ ~\E j \in 1..(k - 1) : Found(j) /\ CleanSkill(j) = CleanSkill(k)
        kept == SelectSeq([k \in DOMAIN technical_skills |-> k], Appended)
    IN [n \in DOMAIN kept |-> CleanSkill(kept[n])]

\* r"(\w+)\s+" + suffix matched at position i of s
SkillPatternAt(s, i, suffix) ==
    LET word_end == AfterSome(s, i, WordSet)
    IN [end |-> AfterLit(s, AfterSome(s, word_end, SpaceSet), suffix),
        group |-> SubSeq(s, i, word_end - 1)]

\* re.findall(r"(\w+)\s+" + suffix, s) from position i on: the captures of
\* the non-overlapping matches, left to right
RECURSIVE FindAllBefore(_, _, _)
FindAllBefore(s, i, suffix) ==
    LET starts == {j \in i..Len(s) : SkillPatternAt(s, j, suffix).end # 0}
        m == SkillPatternAt(s, Least(starts), suffix)
    IN IF starts = {} THEN <<>>
       ELSE <<m.group>> \o FindAllBefore(s, m.end, suffix)

\* for match in matches: appended in title case unless its lower-case form
\* is the lower-case form of a skill already there
RECURSIVE AppendMatches(_, _)
AppendMatches(matches, extracted_skills) ==
    IF matches = <<>> THEN extracted_skills
    ELSE AppendMatches(Tail(matches),
            IF Head(matches) \notin Range(MapLower(extracted_skills))
            THEN Append(extracted_skills, Title(Head(matches)))
            ELSE extracted_skills)

\* the second loop, over skill_patterns k..
RECURSIVE PatternSkills(_, _, _)
PatternSkills(k, text_lower, extracted_skills) ==
    IF k > Len(skill_patterns) THEN extracted_skills
    ELSE PatternSkills(k + 1, text_lower,
            AppendMatches(FindAllBefore(text_lower, 1, skill_patterns[k]),
                          extracted_skills))

\* extracted_skills before the final cut
AllExtractedSkills(text) ==
    PatternSkills(1, Lower(text), VocabularySkills(Lower(text)))

\* the method returning `skills` instead of skills[:20]
ExtractSkillsUncut(text) == AllExtractedSkills(text)

extract_skills_from_text(text) == Prefix(AllExtractedSkills(text), MaxSkillsReturned)

(***************************************************************************)
(* extract_experience_years                                                *)
(***************************************************************************)
NoMatch == [end |-> 0, group |-> ""]

\* experience_patterns[k] matched at position i of s: the end of the match
\* and group(1)
ExperiencePatternAt(k, s, i) ==
    LET digits_end == AfterSome(s, i, DigitSet)
        number == SubSeq(s, i, digits_end - 1)
    IN CASE k = 1 ->   \* (\d+)\s+years?\s+of?\s+experience
              [end |-> AfterLit(s,
                         AfterSome(s,
                           AfterOpt(s,
                             AfterLit(s,
                               AfterSome(s,
                                 AfterYears(s, AfterSome(s, digits_end, SpaceSet)),
                                 SpaceSet),
                               "o"),
                             "f"),
                           SpaceSet),
                         "experience"),
               group |-> number]
         [] k = 2 ->   \* (\d+)\s+years?\s+in\s+\w+
              [end |-> AfterSome(s,
                         AfterSome(s,
                           AfterLit(s,
                             AfterSome(s,
                               AfterYears(s, AfterSome(s, digits_end, SpaceSet)),
                               SpaceSet),
                             "in"),
                           SpaceSet),
                         WordSet),
               group |-> number]
         [] k = 3 ->   \* experience:\s*(\d+)\s+years?
              LET start == AfterAny(s, AfterLit(s, i, "experience:"), SpaceSet)
                  stop == AfterSome(s, start, DigitSet)
              IN [end |-> AfterYears(s, AfterSome(s, stop, SpaceSet)),
                  group |-> SubSeq(s, start, stop - 1)]
         [] k = 4 ->   \* (\d+)\+?\s+years?\s+experience
              [end |-> AfterLit(s,
                         AfterSome(s,
                           AfterYears(s,
                             AfterSome(s, AfterOpt(s, digits_end, "+"), SpaceSet)),
                           SpaceSet),
                         "experience"),
               group |-> number]
         [] k = 5 ->   \* senior\s+level\s+\((\d+)\s+years?\)
              LET start == AfterLit(s,
                             AfterSome(s,
                               AfterLit(s,
                                 AfterSome(s, AfterLit(s, i, "senior"), SpaceSet),
                                 "level"),
                               SpaceSet),
                             "(")
                  stop == AfterSome(s, start, DigitSet)
              IN [end |-> AfterLit(s, AfterYears(s, AfterSome(s, stop, SpaceSet)), ")"),
                  group |-> SubSeq(s, start, stop - 1)]

NumExperiencePatterns == 5

\* re.search(experience_patterns[k], s): the leftmost match
SearchExperience(k, s) ==
    LET starts == {i \in 1..Len(s) : ExperiencePatternAt(k, s, i).end # 0}
    IN IF starts = {} THEN NoMatch ELSE ExperiencePatternAt(k, s, Least(starts))

\* the level keywords tested from the highest level down
ExperienceYearsHighestLevel(text) ==
    LET text_lower == Lower(text)
        matching == {k \in 1..NumExperiencePatterns :
                        SearchExperience(k, text_lower).end # 0}
    IN IF matching # {}
       THEN Rat(ParseInt(SearchExperience(Least(matching), text_lower).group), 1)
       ELSE IF Contains("architect", text_lower) \/ Contains("director", text_lower)
       THEN Rat(15, 1)
       ELSE IF Contains("lead", text_lower) \/ Contains("principal", text_lower)
       THEN Rat(10, 1)
       ELSE IF Contains("senior", text_lower) THEN Rat(7, 1)
       ELSE IF Contains("mid level", text_lower) \/ Contains("intermediate", text_lower)
       THEN Rat(3, 1)
       ELSE IF Contains("entry level", text_lower) \/ Contains("junior", text_lower)
       THEN Rat(1, 1)
       ELSE None

extract_experience_years(text) ==
    LET text_lower == Lower(text)
        matching == {k \in 1..NumExperiencePatterns :
                        SearchExperience(k, text_lower).end # 0}
    IN IF matching # {}
       THEN Rat(ParseInt(SearchExperience(Least(matching), text_lower).group), 1)
       ELSE IF Contains("entry level", text_lower) \/ Contains("junior", text_lower)
       THEN Rat(1, 1)
       ELSE IF Contains("mid level", text_lower) \/ Contains("intermediate", text_lower)
       THEN Rat(3, 1)
       ELSE IF Contains("senior", text_lower) THEN Rat(7, 1)
       ELSE IF Contains("lead", text_lower) \/ Contains("principal", text_lower)
       THEN Rat(10, 1)
       ELSE IF Contains("architect", text_lower) \/ Contains("director", text_lower)
       THEN Rat(15, 1)
       ELSE None

(***************************************************************************)
(* extract_preferred_locations                                             *)
(***************************************************************************)
\* [A-Za-z\s,]
LocationClass == UpperSet \cup LowerSet \cup SpaceSet \cup {","}

NumLocationPatterns == 5
MaxLocationsReturned == 5

\* the end of the literal part of location_patterns[k] matched at position i
LocationLabelEnd(k, s, i) ==
    CASE k = 1 -> AfterLit(s, i, "location:")
      [] k = 2 -> AfterLit(s, AfterSome(s, AfterLit(s, i, "based"), SpaceSet), "in")
      [] k = 3 -> AfterLit(s, i, "from")
      [] k = 4 -> AfterLit(s,
                    AfterSome(s,
                      AfterLit(s,
                        AfterSome(s,
                          AfterLit(s,
                            AfterSome(s, AfterLit(s, i, "willing"), SpaceSet),
                            "to"),
                          SpaceSet),
                        "relocate"),
                      SpaceSet),
                    "to")
      [] k = 5 -> AfterLit(s, AfterSome(s, AfterLit(s, i, "preferred"), SpaceSet),
                           "location:")

\* the label is followed by \s* in patterns 1 and 5, by \s+ in the others
LocationNeedsSpace(k) == k \in {2, 3, 4}

\* location_patterns[k] matched at position i.  After the label comes a run
\* of LocationClass characters, `run` long, beginning with `spaces` blanks.
\* The blanks go to \s and the rest to the group; when the run is all blanks
\* \s gives the last one back to the group, which needs one character.
LocationPatternAt(k, s, i) ==
    LET p == LocationLabelEnd(k, s, i)
        run == RunLen(s, p, LocationClass)
        spaces == RunLen(s, p, SpaceSet)
        taken == IF run > spaces THEN spaces ELSE spaces - 1
        least == IF LocationNeedsSpace(k) THEN 1 ELSE 0
    IN IF p = 0 \/ run = 0 \/ taken < least THEN NoMatch
       ELSE [end |-> p + run, group |-> SubSeq(s, p + taken, p + run - 1)]

\* re.findall(location_patterns[k], s) from position i on
RECURSIVE FindAllLocations(_, _, _)
FindAllLocations(k, s, i) ==
    LET starts == {j \in i..Len(s) : LocationPatternAt(k, s, j).end # 0}
        m == LocationPatternAt(k, s, Least(starts))
    IN IF starts = {} THEN <<>>
       ELSE <<m.group>> \o FindAllLocations(k, s, m.end)

\* for match in matches: the stripped match, when not empty and not (as it
\* is, in lower case) an element of locations, is appended in title case
RECURSIVE AppendLocations(_, _)
AppendLocations(matches, locations) ==
    IF matches = <<>> THEN locations
    ELSE LET location == Strip(Head(matches))
         IN AppendLocations(Tail(matches),
                IF location # "" /\ location \notin Range(locations)
                THEN Append(locations, Title(location))
                ELSE locations)

RECURSIVE LabelledLocations(_, _, _)
LabelledLocations(k, text_lower, locations) ==
    IF k > NumLocationPatterns THEN locations
    ELSE LabelledLocations(k + 1, text_lower,
            AppendLocations(FindAllLocations(k, text_lower, 1), locations))

common_cities ==
    << "bangalore", "mumbai", "delhi", "pune", "hyderabad", "chennai",
       "kolkata", "noida", "gurgaon", "remote", "hybrid" >>

RECURSIVE CityLocations(_, _, _)
CityLocations(k, text_lower, locations) ==
    IF k > Len(common_cities) THEN locations
    ELSE CityLocations(k + 1, text_lower,
            IF Contains(common_cities[k], text_lower)
                  /\ Title(common_cities[k]) \notin Range(locations)
            THEN Append(locations, Title(common_cities[k]))
            ELSE locations)

\* locations before the final cut
AllExtractedLocations(text) ==
    CityLocations(1, Lower(text), LabelledLocations(1, Lower(text), <<>>))

extract_preferred_locations(text) ==
    Prefix(AllExtractedLocations(text), MaxLocationsReturned)

(***************************************************************************)
(* extract_job_preferences                                                 *)
(***************************************************************************)
\* the tags in the order of the checks, each with the keywords that add it
preference_checks ==
    << <<"Full-time", {"full time", "full-time"}>>,
       <<"Part-time", {"part time", "part-time"}>>,
       <<"Contract", {"contract"}>>,
       <<"Remote", {"remote"}>>,
       <<"Hybrid", {"hybrid"}>>,
       <<"Startup", {"startup"}>>,
       <<"Enterprise", {"enterprise", "corporate"}>>,
       <<"Fintech", {"fintech", "finance"}>>,
       <<"Healthcare", {"healthcare", "medical"}>>,
       <<"E-commerce", {"ecommerce", "retail"}>> >>

extract_job_preferences(text) ==
    LET text_lower == Lower(text)
        Present(check) == \E keyword \in check[2] : Contains(keyword, text_lower)
        found == SelectSeq(preference_checks, Present)
    IN [k \in DOMAIN found |-> found[k][1]]

(***************************************************************************)
(* generate_match_rationale                                                *)
(***************************************************************************)
\* sep.join(seq)
RECURSIVE Join(_, _)
Join(seq, sep) ==
    IF seq = <<>> THEN ""
    ELSE IF Len(seq) = 1 THEN seq[1]
    ELSE seq[1] \o sep \o Join(Tail(seq), sep)

\* seq[:n]: the first n elements, or all but the last -n when n is negative
Slice(seq, n) ==
    IF n >= 0 THEN Prefix(seq, n)
    ELSE SubSeq(seq, 1, IF Len(seq) + n > 0 THEN Len(seq) + n ELSE 0)

\* the profile skills that are in job.skills, compared case-insensitively
MatchingSkills(job, skills) ==
    LET InJobSkills(skill) == Lower(skill) \in Range(MapLower(job.skills))
    IN SelectSeq(skills, InJobSkills)

\* the first preferred location that is a substring of job.location
FirstLocationMatch(job, preferred_locations) ==
    LET hits == {k \in DOMAIN preferred_locations :
                    Contains(Lower(preferred_locations[k]), Lower(job.location))}
    IN IF hits = {} THEN <<>>
       ELSE <<preferred_locations[CHOOSE k \in hits : \A j \in hits : k <= j]>>

RationaleReasons(job, skills, experience_years, preferred_locations) ==
    LET matching_skills == MatchingSkills(job, skills)
        skill_reason ==
            IF skills # <<>> /\ job.skills # <<>> /\ matching_skills # <<>>
            THEN <<"Skills match: " \o Join(Prefix(matching_skills, 3), ", ")>>
            ELSE <<>>
        exp_reason ==
            IF experience_years # None /\ experience_years # Zero
                  /\ Truthy(job.experience)
            THEN IF Contains("senior", Lower(job.experience))
                       /\ RLe(Rat(5, 1), experience_years)
                 THEN <<"Experience level matches senior position">>
                 ELSE IF Contains("entry", Lower(job.experience))
                            /\ RLe(experience_years, Rat(2, 1))
                 THEN <<"Experience level matches entry position">>
                 ELSE <<>>
            ELSE <<>>
        loc == FirstLocationMatch(job, preferred_locations)
        loc_reason ==
            IF loc # <<>> THEN <<"Location preference: " \o loc[1]>> ELSE <<>>
        startup_reason ==
            IF Contains("startup", Lower(job.company))
                  /\ "startup" \in Range(MapLower(preferred_locations))
            THEN <<"Company type preference: Startup">>
            ELSE <<>>
    IN skill_reason \o exp_reason \o loc_reason \o startup_reason

generate_match_rationale(job, skills, experience_years, preferred_locations) ==
    LET reasons == RationaleReasons(job, skills, experience_years, preferred_locations)
    IN IF reasons = <<>> THEN "General fit based on job requirements"
       ELSE Join(reasons, "; ")

(***************************************************************************)
(* get_recommendations_for_resume                                          *)
(***************************************************************************)
MinScore == Rat(3, 10)
TopN == 10

\* a sort that is not stable: r is placed ahead of the recommendations of
\* `sorted` whose score equals its own
InsertAheadOfEqual(sorted, r) ==
    LET ahead == Cardinality({k \in DOMAIN sorted : RLt(r.score, sorted[k].score)})
    IN SubSeq(sorted, 1, ahead) \o <<r>> \o SubSeq(sorted, ahead + 1, Len(sorted))

\* recommendations.sort(key=lambda x: x.score, reverse=True): r is placed
\* behind the recommendations of `sorted` whose score is at least its own
InsertByScore(sorted, r) ==
    LET ahead == Cardinality({k \in DOMAIN sorted : RLe(r.score, sorted[k].score)})
    IN SubSeq(sorted, 1, ahead) \o <<r>> \o SubSeq(sorted, ahead + 1, Len(sorted))

RECURSIVE SortByScore(_)
SortByScore(recs) ==
    IF recs = <<>> THEN <<>>
    ELSE InsertByScore(SortByScore(SubSeq(recs, 1, Len(recs) - 1)), recs[Len(recs)])

\* the JobRecommendation built for one job of the loop
Recommendation(job, skills, experience_years, preferred_locations) ==
    LET InDescription(skill) == Contains(Lower(skill), Lower(job.description))
    IN [job |-> job,
        score |-> calculate_job_match_score(job, skills, experience_years,
                                            preferred_locations),
        rationale |-> generate_match_rationale(job, skills, experience_years,
                                               preferred_locations),
        skills_match |-> SelectSeq(skills, InDescription),
        location_match |-> FirstLocationMatch(job, preferred_locations) # <<>>]

\* if score > 0.3
AtLeastThreshold(score) == RLe(MinScore, score)

AboveThreshold(score) == RLt(MinScore, score)

\* the recommendations appended by the loop over mock_jobs, in loop order
AppendedRecommendations(jobs, skills, experience_years, preferred_locations) ==
    LET Kept(rec) == AboveThreshold(rec.score)
    IN SelectSeq([k \in DOMAIN jobs |->
                     Recommendation(jobs[k], skills, experience_years,
                                    preferred_locations)],
                 Kept)

\* the method without its except clause: the exception of get_mock_jobs or of
\* the scoring of a job leaves the method
RecommendationsUnhandled(mock_jobs, unavailable, skills, experience_years, preferred_locations) ==
    IF unavailable THEN Raised("Exception")
    ELSE IF \E k \in DOMAIN mock_jobs :
               MatchScoreRaises(mock_jobs[k], preferred_locations)
    THEN Raised("AttributeError")
    ELSE Returned(Prefix(SortByScore(AppendedRecommendations(mock_jobs, skills,
                                         experience_years, preferred_locations)),
                         TopN))

\* the method without the cut of its last line
RecommendationsUncut(mock_jobs, unavailable, skills, experience_years, preferred_locations) ==
    IF unavailable
          \/ \E k \in DOMAIN mock_jobs :
                MatchScoreRaises(mock_jobs[k], preferred_locations)
    THEN Returned(<<>>)
    ELSE Returned(SortByScore(AppendedRecommendations(mock_jobs, skills,
                                  experience_years, preferred_locations)))

\* The try block spans the whole method: an exception raised by get_mock_jobs
\* (unavailable), or while one job is scored, ends the loop and [] is returned.
get_recommendations_for_resume(mock_jobs, unavailable, skills, experience_years, preferred_locations) ==
    IF unavailable
          \/ \E k \in DOMAIN mock_jobs :
                MatchScoreRaises(mock_jobs[k], preferred_locations)
    THEN Returned(<<>>)
    ELSE Returned(Prefix(SortByScore(AppendedRecommendations(mock_jobs, skills,
                                         experience_years, preferred_locations)),
                         TopN))

(***************************************************************************)
(* analyze_resume                                                          *)
(***************************************************************************)
ResumeAnalysis(skills, experience_years, preferred_locations, job_preferences, recommendations) ==
    [skills |-> skills, experience_years |-> experience_years,
     preferred_locations |-> preferred_locations,
     job_preferences |-> job_preferences, recommendations |-> recommendations]

\* ResumeAnalysis(): every field at its default
EmptyAnalysis == ResumeAnalysis(<<>>, None, <<>>, <<>>, <<>>)

\* the statements of the try block that follow the four extractions
AnalysisOf(profile, mock_jobs, unavailable) ==
    LET Built(recommendations) ==
            IF recommendations.exc # "" THEN Raised(recommendations.exc)
            ELSE Returned(ResumeAnalysis(profile.skills, profile.experience_years,
                                         profile.preferred_locations,
                                         profile.job_preferences,
                                         recommendations.value))
    IN Built(get_recommendations_for_resume(mock_jobs, unavailable, profile.skills,
                 profile.experience_years, profile.preferred_locations))

\* the four extractions at the head of the try block
ExtractedProfile(resume_text) ==
    [skills |-> extract_skills_from_text(resume_text),
     experience_years |-> extract_experience_years(resume_text),
     preferred_locations |-> extract_preferred_locations(resume_text),
     job_preferences |-> extract_job_preferences(resume_text)]

\* A resume_text that is no str (NoneStr) makes text.lower() raise; that and
\* any exception leaving get_recommendations_for_resume end in the except
\* clause, which returns ResumeAnalysis().
analyze_resume(resume_text, mock_jobs, unavailable) ==
    LET Handled(tried) == IF tried.exc # "" THEN Returned(EmptyAnalysis) ELSE tried
    IN Handled(IF resume_text = NoneStr THEN Raised("AttributeError")
               ELSE AnalysisOf(ExtractedProfile(resume_text), mock_jobs, unavailable))

(***************************************************************************)
(* calculate_job_similarity and get_similar_jobs                           *)
(***************************************************************************)
SimilarityCutoff == Rat(3, 10)

Max(a, b) == IF a >= b THEN a ELSE b

SimilarityTerms(job1, job2) ==
    LET common_skills == Range(MapLower(job1.skills)) \cap Range(MapLower(job2.skills))
        Levelled(experience) ==
            \E level \in {"senior", "lead"} : Contains(level, Lower(experience))
    IN [title |->
            IF Lower(job1.title) = Lower(job2.title) THEN Rat(3, 10)
            ELSE IF \E word \in Range(Split(Lower(job1.title))) :
                       Contains(word, Lower(job2.title))
            THEN Rat(2, 10)
            ELSE Zero,
        skills |->
            IF job1.skills # <<>> /\ job2.skills # <<>> /\ common_skills # {}
            THEN RMul(Rat(3, 10),
                      Rat(Cardinality(common_skills),
                          Max(Len(job1.skills), Len(job2.skills))))
            ELSE Zero,
        experience |->
            IF Truthy(job1.experience) /\ Truthy(job2.experience)
            THEN IF Lower(job1.experience) = Lower(job2.experience) THEN Rat(2, 10)
                 ELSE IF Levelled(job1.experience) /\ Levelled(job2.experience)
                 THEN Rat(15, 100)
                 ELSE Zero
            ELSE Zero,
        location |->
            IF Lower(job1.location) = Lower(job2.location) THEN Rat(2, 10) ELSE Zero]

\* job.location.lower() on a job without a location raises AttributeError
SimilarityRaises(job1, job2) == job1.location = NoneStr \/ job2.location = NoneStr

\* the title test as two independent ifs (an equal title also shares a word)
\* and the sum returned without min(score, 1.0)
SimilarityTitleTwiceUncapped(job1, job2) ==
    LET t == SimilarityTerms(job1, job2)
        shared == IF \E word \in Range(Split(Lower(job1.title))) :
                        Contains(word, Lower(job2.title))
                  THEN Rat(2, 10) ELSE Zero
        title == IF Lower(job1.title) = Lower(job2.title)
                 THEN RAdd(Rat(3, 10), shared) ELSE shared
    IN RAdd(RAdd(RAdd(title, t.skills), t.experience), t.location)

\* the skills term taken over the skills of both jobs together rather than
\* over the longer of the two lists
SimilaritySkillsOverBoth(job1, job2) ==
    LET t == SimilarityTerms(job1, job2)
        n == Len(job1.skills) + Len(job2.skills)
        skills == IF n = 0 THEN Zero
                  ELSE RMul(t.skills, Rat(Max(Len(job1.skills), Len(job2.skills)), n))
    IN RMin(RAdd(RAdd(RAdd(t.title, skills), t.experience), t.location), One)

calculate_job_similarity(job1, job2) ==
    LET t == SimilarityTerms(job1, job2)
    IN RMin(RAdd(RAdd(RAdd(t.title, t.skills), t.experience), t.location), One)

SimilarRecommendation(reference_job, job) ==
    [job |-> job,
     score |-> calculate_job_similarity(reference_job, job),
     rationale |-> "Similar to " \o reference_job.title \o " position",
     skills_match |-> <<>>,
     location_match |-> FALSE]

\* the recommendations appended by the loop over all_jobs, in loop order
RECURSIVE AppendedSimilar(_, _, _)
AppendedSimilar(reference_job, jobs, job_id) ==
    IF jobs = <<>> THEN <<>>
    ELSE LET rec == SimilarRecommendation(reference_job, Head(jobs))
         IN (IF Head(jobs).job_id # job_id /\ RLt(SimilarityCutoff, rec.score)
             THEN <<rec>> ELSE <<>>)
               \o AppendedSimilar(reference_job, Tail(jobs), job_id)

\* The reference job is get_mock_jobs()[0] whatever job_id is (IndexError on
\* an empty collection); the try block spans the whole method.
get_similar_jobs(mock_jobs, unavailable, job_id, limit) ==
    IF unavailable \/ mock_jobs = <<>>
          \/ \E k \in DOMAIN mock_jobs :
                /\ mock_jobs[k].job_id # job_id
                /\ SimilarityRaises(mock_jobs[1], mock_jobs[k])
    THEN Returned(<<>>)
    ELSE Returned(Slice(SortByScore(AppendedSimilar(mock_jobs[1], mock_jobs, job_id)),
                        limit))

(***************************************************************************)
(* Inputs of the calls                                                     *)
(***************************************************************************)
MaxSkills == 2      \* longest profile skills list
MaxLocations == 1   \* longest preferred-locations list

\* the sequences over S of length at most n
SeqsUpTo(S, n) == UNION {[1..k -> S] : k \in 0..n}

SkillPool == {"Python", "react"}
LocationPool == {"Bangalore", "New Delhi", "remote"}
ProfileSkills == SeqsUpTo(SkillPool, MaxSkills)
ProfileLocations == SeqsUpTo(LocationPool, MaxLocations)
ProfileYears == {None, Rat(0, 1), Rat(2, 1), Rat(7, 1)}

JobLocations == {"Bangalore, Karnataka", "Remote", "Delhi NCR"}
JobExperiences == {"5-8 years", "Senior", "3+ years", "Entry level", ""}
JobSkillsAndDescriptions ==
    { <<get_mock_jobs[1].skills, get_mock_jobs[1].description>>,
      <<get_mock_jobs[2].skills, get_mock_jobs[2].description>>,
      << <<>>, "Developer for a React Native app" >>,
      << <<"REACT", "python">>, "" >> }

\* validated Job objects: every str field is a str
Jobs ==
    Range(get_mock_jobs) \cup
    { Job("job_x", "Software Engineer", "Acme", l, e, sd[1], sd[2]) :
        l \in JobLocations, e \in JobExperiences, sd \in JobSkillsAndDescriptions }

MatchScoreCalls ==
    [op : {"calculate_job_match_score"}, job : Jobs, skills : ProfileSkills,
     experience_years : ProfileYears, preferred_locations : ProfileLocations]

\* experience texts of job postings: level words, closed and open ranges
ExperienceTexts ==
    { "Junior", "Mid level", "Intermediate", "Lead developer", "Principal engineer",
      "Junior to Senior", "Senior, 3-5 years", "2-4 yrs", "10+", "0-1 years",
      "Minimum 4 years", "2020 batch, 3+5", "8+ years (12-15 preferred)" }

ExperienceMatchCalls ==
    [op : {"calculate_experience_match"}, resume_years : ProfileYears \ {None},
     job_experience : JobExperiences \cup {get_mock_jobs[k].experience : k \in 1..3}
                        \cup ExperienceTexts]

\* preference lists that name work modes, several places or nothing
WorkModePreferences ==
    { <<"hybrid">>, <<"Hybrid work">>, <<"remote", "hybrid">>, <<"hybrid", "remote">>,
      <<"New Delhi", "hybrid">>, <<"Mumbai", "hybrid office">>, <<"Pune", "remote">>,
      <<"">> }

LocationMatchCalls ==
    [op : {"calculate_location_match"},
     job_location : JobLocations \cup {"Hybrid - Pune", ""},
     preferred_locations : ProfileLocations \cup WorkModePreferences]

(***************************************************************************)
(* Calls of the scoring functions                                          *)
(***************************************************************************)
\* JobRecommender.__init__: the fields of a new recommender
JobRecommenderFields == [vectorizer |-> "TfidfVectorizer", job_vectors |-> None, jobs |-> <<>>]

Called(calls) ==
    /\ call \in calls
    /\ ret = None
    /\ exc = ""
    /\ locals = None
    /\ pc = "called"
    /\ self = JobRecommenderFields
    /\ history = <<>>

Returns(value, frame) ==
    /\ ret' = value
    /\ exc' = ""
    /\ locals' = frame
    /\ pc' = "returned"
    /\ UNCHANGED <<call, self, history>>

Raises(name) ==
    /\ ret' = None
    /\ exc' = name
    /\ locals' = None
    /\ pc' = "returned"
    /\ UNCHANGED <<call, self, history>>

\* the call ends as `outcome` says
Completes(outcome) ==
    /\ ret' = outcome.value
    /\ exc' = outcome.exc
    /\ locals' = None
    /\ pc' = "returned"
    /\ UNCHANGED <<call, self, history>>

CalculateJobMatchScore ==
    /\ pc = "called"
    /\ call.op = "calculate_job_match_score"
    /\ IF MatchScoreRaises(call.job, call.preferred_locations)
       THEN Raises("AttributeError")
       ELSE Returns(calculate_job_match_score(call.job, call.skills,
                        call.experience_years, call.preferred_locations),
                    MatchScoreFrame(call.job, call.skills, call.experience_years,
                                    call.preferred_locations))

CalculateExperienceMatch ==
    /\ pc = "called"
    /\ call.op = "calculate_experience_match"
    /\ Returns(calculate_experience_match(call.resume_years, call.job_experience),
               [job_years |-> JobYears(call.job_experience)])

CalculateLocationMatch ==
    /\ pc = "called"
    /\ call.op = "calculate_location_match"
    /\ Returns(calculate_location_match(call.job_location, call.preferred_locations),
               None)

InitScore == Called(MatchScoreCalls \cup ExperienceMatchCalls \cup LocationMatchCalls)

NextScore ==
    \/ CalculateJobMatchScore
    \/ CalculateExperienceMatch
    \/ CalculateLocationMatch

SpecScore == InitScore /\ [][NextScore]_vars

(***************************************************************************)
(* Claims about the match score                                            *)
(***************************************************************************)
ReturnedFrom(op) == pc = "returned" /\ call.op = op

InUnit(x) == RLe(Zero, x) /\ RLe(x, One)

AllSubScoresComputed ==
    /\ locals.skill_score # None
    /\ locals.exp_score # None
    /\ locals.location_score # None
    /\ locals.desc_score # None

\* C1: for every profile and every job posting, calculate_job_match_score
\* returns, without raising, a score in [0,1].
C1_ScoreInUnitInterval ==
    ReturnedFrom("calculate_job_match_score") => exc = "" /\ InUnit(ret)

\* a call in which all four sub-scores count and the score is strictly
\* between 0 and 1
C1_Witness ==
    /\ ReturnedFrom("calculate_job_match_score")
    /\ AllSubScoresComputed
    /\ RLt(Zero, ret) /\ RLt(ret, One)

\* C7: before the final cap each computed sub-score is in [0,1] and the
\* weighted sum (weights 0.4, 0.3, 0.2, 0.1) is at most 1.
C7_SubScoresBounded ==
    ReturnedFrom("calculate_job_match_score") =>
        /\ \A sub \in {locals.skill_score, locals.exp_score,
                       locals.location_score, locals.desc_score} :
              sub # None => InUnit(sub)
        /\ RLe(locals.score, One)
        /\ locals.score =
              RAdd(RAdd(RAdd(Weighted(locals.skill_score, Rat(4, 10)),
                             Weighted(locals.exp_score, Rat(3, 10))),
                        Weighted(locals.location_score, Rat(2, 10))),
                   Weighted(locals.desc_score, Rat(1, 10)))

\* a call in which all four sub-scores are 1, so the weighted sum reaches 1
C7_Witness ==
    /\ ReturnedFrom("calculate_job_match_score")
    /\ AllSubScoresComputed
    /\ locals.score = One

\* the profile has skills, no experience years and no preferred locations,
\* and every one of its skills is in job.skills (compared case-insensitively)
SkillsOnlyProfileFullyMatched ==
    /\ ReturnedFrom("calculate_job_match_score")
    /\ call.skills # <<>>
    /\ call.experience_years = None
    /\ call.preferred_locations = <<>>
    /\ \A k \in DOMAIN call.skills :
          \E j \in DOMAIN call.job.skills :
              Lower(call.skills[k]) = Lower(call.job.skills[j])

\* the profile skills that occur in the job description
SkillsInDescription ==
    {k \in DOMAIN call.skills :
        Contains(Lower(call.skills[k]), Lower(call.job.description))}

\* C8 as stated: for such a profile the final score is exactly 0.4.
C8_Original_ExactlyFourTenths ==
    SkillsOnlyProfileFullyMatched => ret = Rat(4, 10)

\* C8 amended: for such a profile the final score is 0.4 plus 0.1 times the
\* fraction of the profile's skills that occur in the job description; it is
\* exactly 0.4 when none of them occurs there.  The absent experience and
\* location sub-scores add nothing and the weights are not renormalised.
C8_SkillsOnlyScore ==
    SkillsOnlyProfileFullyMatched =>
        /\ ret = RAdd(Rat(4, 10),
                      RMul(Rat(1, 10),
                           Rat(Cardinality(SkillsInDescription), Len(call.skills))))
        /\ SkillsInDescription = {} => ret = Rat(4, 10)
        /\ locals.exp_score = None /\ locals.location_score = None

\* such a profile against a job whose description names none of its skills
C8_Witness ==
    /\ SkillsOnlyProfileFullyMatched
    /\ Truthy(call.job.description)
    /\ SkillsInDescription = {}
    /\ ret = Rat(4, 10)

\* C9: whenever the candidate's years are at least the required years derived
\* from the job's experience text, the experience sub-score is exactly 1.0,
\* in a direct call and inside calculate_job_match_score.
C9_OverqualifiedScoresOne ==
    /\ ReturnedFrom("calculate_experience_match")
          /\ RLe(JobYears(call.job_experience), call.resume_years)
          => ret = One
    /\ ReturnedFrom("calculate_job_match_score")
          /\ locals.exp_score # None
          /\ RLe(JobYears(call.job.experience), call.experience_years)
          => locals.exp_score = One

\* a candidate with strictly more years than the job requires
C9_Witness ==
    /\ ReturnedFrom("calculate_experience_match")
    /\ RLt(JobYears(call.job_experience), call.resume_years)
    /\ ret = One

(***************************************************************************)
(* Ranking calls.  get_mock_jobs stands in for the query of the job store  *)
(* ("This would typically fetch from database"): a call is made against    *)
(* the three mock jobs and against other collections that query could      *)
(* return, and against the query failing.                                  *)
(***************************************************************************)
MaxMixed == 2        \* longest collection mixed freely from RankPool
MaxCollection == 12  \* longest collection of repeated mock jobs
MaxLimit == 3        \* largest limit passed to get_similar_jobs

\* a record that reached the store without a location
MalformedJob ==
    Job("bad", "Senior Python Developer", "Startup Labs", NoneStr, "Senior",
        <<"Python", "React">>, "Python and React")

RankPool == Range(get_mock_jobs) \cup {MalformedJob}

\* job ids are unique within a collection
Renumbered(jobs) ==
    [i \in DOMAIN jobs |-> [jobs[i] EXCEPT !.job_id = "job_" \o ToString(i)]]

Cycled(n) == [i \in 1..n |-> get_mock_jobs[((i - 1) % Len(get_mock_jobs)) + 1]]

Collections ==
    {get_mock_jobs}
        \cup {Renumbered(jobs) : jobs \in SeqsUpTo(RankPool, MaxMixed)}
        \cup {Renumbered(Cycled(n)) : n \in 0..MaxCollection}

Profile(skills, experience_years, preferred_locations) ==
    [skills |-> skills, experience_years |-> experience_years,
     preferred_locations |-> preferred_locations]

RankProfiles ==
    { Profile(<<"Python", "react">>, Rat(7, 1), <<"Bangalore">>),
      Profile(<<"Python">>, Rat(7, 1), <<>>),
      Profile(<<"react">>, Rat(2, 1), <<"remote">>),
      Profile(<<>>, Rat(7, 1), <<>>),
      Profile(<<>>, None, <<>>) }

RecommendationCalls ==
    { [op |-> "get_recommendations_for_resume", mock_jobs |-> jobs,
       unavailable |-> u, skills |-> p.skills,
       experience_years |-> p.experience_years,
       preferred_locations |-> p.preferred_locations] :
        jobs \in Collections, u \in BOOLEAN, p \in RankProfiles }

SimilarJobsCalls ==
    [op : {"get_similar_jobs"}, mock_jobs : Collections, unavailable : BOOLEAN,
     job_id : {"mock_1", "job_1", "job_2", "unknown"}, limit : -1..MaxLimit]

\* resume texts handed to analyze_resume; NoneStr is a resume_text that is no
\* str (the endpoint passes on whatever the request body holds)
ResumeTexts ==
    { "",
      "Python developer with 7 years of experience in React, based in Bangalore",
      "Fresher looking for remote full-time work",
      "React and Node.js developer looking for remote work at a startup",
      NoneStr }

AnalyzeCollections == {get_mock_jobs, <<>>, <<MalformedJob>> \o get_mock_jobs}

AnalyzeCalls ==
    [op : {"analyze_resume"}, resume_text : ResumeTexts,
     mock_jobs : AnalyzeCollections, unavailable : BOOLEAN]

GetRecommendationsForResume ==
    /\ pc = "called"
    /\ call.op = "get_recommendations_for_resume"
    /\ Completes(get_recommendations_for_resume(call.mock_jobs, call.unavailable,
                   call.skills, call.experience_years, call.preferred_locations))

AnalyzeResume ==
    /\ pc = "called"
    /\ call.op = "analyze_resume"
    /\ Completes(analyze_resume(call.resume_text, call.mock_jobs, call.unavailable))

GetSimilarJobs ==
    /\ pc = "called"
    /\ call.op = "get_similar_jobs"
    /\ Completes(get_similar_jobs(call.mock_jobs, call.unavailable, call.job_id,
                                  call.limit))

InitRank == Called(RecommendationCalls \cup SimilarJobsCalls \cup AnalyzeCalls)

NextRank ==
    \/ GetRecommendationsForResume
    \/ AnalyzeResume
    \/ GetSimilarJobs

SpecRank == InitRank /\ [][NextRank]_vars

(***************************************************************************)
(* Claims about ranking                                                    *)
(***************************************************************************)
\* the match score of job k of the collection, for the profile of the call
ScoreOfJob(k) ==
    calculate_job_match_score(call.mock_jobs[k], call.skills,
                              call.experience_years, call.preferred_locations)

\* scoring job k of the collection raises
ScoringRaises(k) == MatchScoreRaises(call.mock_jobs[k], call.preferred_locations)

\* C2: every list returned by get_recommendations_for_resume is in
\* non-increasing score order and every entry scores strictly more than 0.3;
\* a job scoring exactly 0.3 is not returned.
C2_SortedAboveThreshold ==
    ReturnedFrom("get_recommendations_for_resume") =>
        /\ \A i, j \in DOMAIN ret : i < j => RLe(ret[j].score, ret[i].score)
        /\ \A i \in DOMAIN ret : RLt(Rat(3, 10), ret[i].score)
        /\ \A k \in DOMAIN call.mock_jobs :
              (~ScoringRaises(k) /\ ScoreOfJob(k) = Rat(3, 10))
                  => \A i \in DOMAIN ret : ret[i].job # call.mock_jobs[k]

\* a ranking with entries of different scores, from a collection one job of
\* which scores exactly 0.3
C2_Witness ==
    /\ ReturnedFrom("get_recommendations_for_resume")
    /\ Len(ret) >= 2
    /\ ret[1].score # ret[Len(ret)].score
    /\ \E k \in DOMAIN call.mock_jobs :
          ~ScoringRaises(k) /\ ScoreOfJob(k) = Rat(3, 10)

\* C3 as stated: when scoring a job of the collection raises, every other job
\* whose score is above the threshold is still returned (the collection is
\* small enough for the cut to 10 entries not to matter).
C3_OnlyFailingJobSkipped ==
    ( /\ ReturnedFrom("get_recommendations_for_resume")
      /\ ~call.unavailable
      /\ Len(call.mock_jobs) <= TopN
      /\ \E k \in DOMAIN call.mock_jobs : ScoringRaises(k) )
    => \A k \in DOMAIN call.mock_jobs :
          (~ScoringRaises(k) /\ RLt(MinScore, ScoreOfJob(k)))
              => \E i \in DOMAIN ret : ret[i].job = call.mock_jobs[k]

\* C6: get_recommendations_for_resume returns at most 10 entries, and
\* get_similar_jobs at most `limit` entries for every limit >= 0.
C6_AtMostLimit ==
    /\ ReturnedFrom("get_recommendations_for_resume") => Len(ret) <= 10
    /\ ReturnedFrom("get_similar_jobs") /\ call.limit >= 0
          => Len(ret) <= call.limit

\* more than 10 jobs of the collection score above the threshold and the
\* ranking holds 10 of them
C6_Witness ==
    /\ ReturnedFrom("get_recommendations_for_resume")
    /\ Cardinality({k \in DOMAIN call.mock_jobs :
                      ~ScoringRaises(k) /\ RLt(MinScore, ScoreOfJob(k))}) > 10
    /\ Len(ret) = 10

\* the profile fields analyze_resume extracts from the text of the call
ExtractedFieldsReturned ==
    /\ ret.skills = extract_skills_from_text(call.resume_text)
    /\ ret.experience_years = extract_experience_years(call.resume_text)
    /\ ret.preferred_locations = extract_preferred_locations(call.resume_text)
    /\ ret.job_preferences = extract_job_preferences(call.resume_text)

\* C4 as stated: when the job collection cannot be fetched, no exception
\* reaches the caller, get_recommendations_for_resume and get_similar_jobs
\* return [] and analyze_resume returns the empty analysis ResumeAnalysis().
C4_Original_EmptyAnalysis ==
    (pc = "returned" /\ call.unavailable) =>
        /\ exc = ""
        /\ call.op \in {"get_recommendations_for_resume", "get_similar_jobs"}
              => ret = <<>>
        /\ call.op = "analyze_resume" => ret = EmptyAnalysis

\* C4, amended: when the job collection cannot be fetched, no exception
\* reaches the caller, get_recommendations_for_resume and get_similar_jobs
\* return [], and analyze_resume returns an analysis whose recommendations are
\* empty and whose profile fields are those extracted from the text; it is the
\* empty analysis only for a text that is not a str.
C4_FailureAbsorbed ==
    (pc = "returned" /\ call.unavailable) =>
        /\ exc = ""
        /\ call.op \in {"get_recommendations_for_resume", "get_similar_jobs"}
              => ret = <<>>
        /\ call.op = "analyze_resume" =>
              IF call.resume_text = NoneStr THEN ret = EmptyAnalysis
              ELSE ret.recommendations = <<>> /\ ExtractedFieldsReturned

\* the collection cannot be fetched and analyze_resume returns the skills of
\* the resume with no recommendations
C4_Witness ==
    /\ ReturnedFrom("analyze_resume")
    /\ call.unavailable
    /\ exc = ""
    /\ ret.skills # <<>>
    /\ ret.recommendations = <<>>

(***************************************************************************)
(* Extraction calls: the texts are built from pieces of resume prose       *)
(***************************************************************************)
MaxParts == 2  \* most fragments joined into one resume text

TextFragments ==
    { "Python developer with 3 years experience, based in Bangalore. ",
      "Senior software engineer with lead responsibilities; ",
      "java typescript angular vue node.js express django flask spring mongodb postgresql mysql azure gcp docker kubernetes github jenkins web development ",
      "Willing to relocate to Mumbai, from Delhi. Pune, Hyderabad, Chennai or Kolkata. ",
      "Looking for full-time remote positions in startup companies. ",
      "7 years of experience in backend tool programming, location: Noida ",
      "Started as a junior tester. ",
      "Intermediate analyst, later principal architect. ",
      "Director of engineering ",
      "Wrote the ß tool and the ß library. " }

RECURSIVE Concat(_)
Concat(parts) == IF parts = <<>> THEN "" ELSE Head(parts) \o Concat(Tail(parts))

\* NoneStr stands for a text that is no str
Texts == {Concat(parts) : parts \in SeqsUpTo(TextFragments, MaxParts)} \cup {NoneStr}

ExtractOps ==
    { "extract_skills_from_text", "extract_experience_years",
      "extract_preferred_locations", "extract_job_preferences" }

ExtractCalls == [op : ExtractOps, text : Texts]

\* text.lower(), the first statement of each extraction method, raises for a
\* text that is no str
ExtractSkillsFromText ==
    /\ pc = "called"
    /\ call.op = "extract_skills_from_text"
    /\ IF call.text = NoneStr THEN Raises("AttributeError")
       ELSE Returns(extract_skills_from_text(call.text),
                    [skills |-> AllExtractedSkills(call.text)])

ExtractExperienceYears ==
    /\ pc = "called"
    /\ call.op = "extract_experience_years"
    /\ IF call.text = NoneStr THEN Raises("AttributeError")
       ELSE Returns(extract_experience_years(call.text), None)

ExtractPreferredLocations ==
    /\ pc = "called"
    /\ call.op = "extract_preferred_locations"
    /\ IF call.text = NoneStr THEN Raises("AttributeError")
       ELSE Returns(extract_preferred_locations(call.text),
                    [locations |-> AllExtractedLocations(call.text)])

ExtractJobPreferences ==
    /\ pc = "called"
    /\ call.op = "extract_job_preferences"
    /\ IF call.text = NoneStr THEN Raises("AttributeError")
       ELSE Returns(extract_job_preferences(call.text), None)

InitExtract == Called(ExtractCalls)

NextExtract ==
    \/ ExtractSkillsFromText
    \/ ExtractExperienceYears
    \/ ExtractPreferredLocations
    \/ ExtractJobPreferences

SpecExtract == InitExtract /\ [][NextExtract]_vars

(***************************************************************************)
(* Claims about extraction                                                 *)
(***************************************************************************)
\* C5: for every text that is a str, the empty string included, no extraction
\* method raises, extract_skills_from_text returns at most 20 skills and
\* extract_preferred_locations at most 5 locations.
C5_ExtractionBounded ==
    (pc = "returned" /\ call.op \in ExtractOps /\ call.text # NoneStr) =>
        /\ exc = ""
        /\ call.op = "extract_skills_from_text" => Len(ret) <= 20
        /\ call.op = "extract_preferred_locations" => Len(ret) <= 5

\* a text that names more than 20 skills, of which 20 are returned
C5_Witness ==
    /\ ReturnedFrom("extract_skills_from_text")
    /\ exc = ""
    /\ Len(locals.skills) > 20
    /\ Len(ret) = 20

(***************************************************************************)
(* Similarity calls, over postings as the scrapers build them: the         *)
(* LinkedIn scraper stores experience "" and skills [], the Naukri scraper *)
(* stores the skill tags of the page as they come.                         *)
(***************************************************************************)
SimilarityJobs ==
    { Job("job", title, company, location, experience, skills, "Build and run services") :
        title \in {"Senior Software Engineer", "Data Scientist"},
        company \in {"TechCorp", "DataCorp"},
        location \in {"Bangalore", "Mumbai"},
        experience \in {"5-8 years", "Senior", ""},
        skills \in {<<"Python", "React", "AWS">>, <<"Python", "python">>, <<>>} }

SimilarityCalls == [op : {"calculate_job_similarity"}, job1 : SimilarityJobs, job2 : SimilarityJobs]

CalculateJobSimilarity ==
    /\ pc = "called"
    /\ call.op = "calculate_job_similarity"
    /\ IF SimilarityRaises(call.job1, call.job2) THEN Raises("AttributeError")
       ELSE Returns(calculate_job_similarity(call.job1, call.job2),
                    SimilarityTerms(call.job1, call.job2))

InitSim == Called(SimilarityCalls)

NextSim == CalculateJobSimilarity

SpecSim == InitSim /\ [][NextSim]_vars

(***************************************************************************)
(* Claims about similarity                                                 *)
(***************************************************************************)
\* the two postings of the call differ in the company name and in nothing else
SameExceptCompany ==
    /\ call.job1.company # call.job2.company
    /\ [call.job1 EXCEPT !.company = ""] = [call.job2 EXCEPT !.company = ""]

\* no two entries of the list are equal when case is ignored
DistinctIgnoringCase(skills) ==
    Cardinality(Range(MapLower(skills))) = Len(skills)

\* C10 as stated: two postings identical in every field except the company
\* name have similarity exactly 1.0.
C10_Original_IdenticalScoreOne ==
    (ReturnedFrom("calculate_job_similarity") /\ SameExceptCompany) => ret = One

\* C10, amended: two postings identical in every field except the company
\* name have similarity 0.5 (title 0.3 + location 0.2), plus 0.2 when their
\* experience text is not empty, plus 0.3 times the share of their skills
\* entries that are distinct ignoring case when they list skills; this is
\* exactly 1.0 when the experience text is not empty and the skills list is
\* not empty and holds no two entries equal ignoring case.
C10_IdenticalScore ==
    (ReturnedFrom("calculate_job_similarity") /\ SameExceptCompany) =>
        LET job == call.job1
            experience == IF job.experience # "" THEN Rat(2, 10) ELSE Zero
            skills == IF job.skills # <<>>
                      THEN RMul(Rat(3, 10),
                                Rat(Cardinality(Range(MapLower(job.skills))),
                                    Len(job.skills)))
                      ELSE Zero
        IN /\ exc = ""
           /\ ret = RAdd(RAdd(Rat(5, 10), experience), skills)
           /\ (job.experience # "" /\ job.skills # <<>>
                  /\ DistinctIgnoringCase(job.skills)) => ret = One

\* two postings with skills and an experience text that differ only in the
\* company name, scored 1.0
C10_Witness ==
    /\ ReturnedFrom("calculate_job_similarity")
    /\ SameExceptCompany
    /\ call.job1.experience # ""
    /\ call.job1.skills # <<>>
    /\ DistinctIgnoringCase(call.job1.skills)
    /\ ret = One

(***************************************************************************)
(* Claims about the similar-jobs path and the order of rankings            *)
(***************************************************************************)
\* the job_id passed to get_similar_jobs names a job of the collection
ReferenceInCollection ==
    \E k \in DOMAIN call.mock_jobs : call.mock_jobs[k].job_id = call.job_id

\* the job of the collection that job_id names
ReferenceJob ==
    CHOOSE job \in Range(call.mock_jobs) : job.job_id = call.job_id

\* C11 as stated: get_similar_jobs(job_id) scores the job that job_id names
\* against the other jobs of the collection only: no returned entry is the
\* reference job, every score is the similarity of the reference job and the
\* entry's job, and every score is strictly greater than 0.3.
C11_ReferenceAgainstOthers ==
    (ReturnedFrom("get_similar_jobs") /\ exc = "" /\ ReferenceInCollection) =>
        \A i \in DOMAIN ret :
            /\ ret[i].job # ReferenceJob
            /\ ret[i].score = calculate_job_similarity(ReferenceJob, ret[i].job)
            /\ RLt(SimilarityCutoff, ret[i].score)

\* position in the collection of the job of a returned entry
IndexInCollection(job) ==
    CHOOSE k \in DOMAIN call.mock_jobs : call.mock_jobs[k] = job

\* C12: in the list returned by get_recommendations_for_resume and by
\* get_similar_jobs, two entries with equal scores are in the relative order
\* their jobs have in the job collection.
C12_StableRanking ==
    ( /\ pc = "returned"
      /\ call.op \in {"get_recommendations_for_resume", "get_similar_jobs"}
      /\ exc = "" ) =>
        \A i, j \in DOMAIN ret :
            (i < j /\ ret[i].score = ret[j].score)
                => IndexInCollection(ret[i].job) < IndexInCollection(ret[j].job)

\* a ranking that holds two entries of equal score and an entry of another
\* score, built from a collection where a lower-scored job comes first
C12_Witness ==
    /\ ReturnedFrom("get_recommendations_for_resume")
    /\ \E i, j \in DOMAIN ret : i < j /\ ret[i].score = ret[j].score
    /\ \E i, j \in DOMAIN ret :
          /\ i < j
          /\ ret[i].score # ret[j].score
          /\ IndexInCollection(ret[j].job) < IndexInCollection(ret[i].job)

\* C13: for every pair of job postings, calculate_job_similarity returns a
\* value in [0,1].
C13_SimilarityInUnitInterval ==
    (ReturnedFrom("calculate_job_similarity") /\ exc = "") => InUnit(ret)

\* two different postings that share some skills: a similarity strictly
\* between 0 and 1
C13_Witness ==
    /\ ReturnedFrom("calculate_job_similarity")
    /\ exc = ""
    /\ call.job1 # call.job2
    /\ locals.skills # Zero
    /\ RLt(Zero, ret)
    /\ RLt(ret, One)

(***************************************************************************)
(* Claims about extract_experience_years                                   *)
(***************************************************************************)
\* the numeric patterns that match somewhere in the lowercased text of the call
NumericPatternsMatching ==
    {k \in 1..NumExperiencePatterns : SearchExperience(k, Lower(call.text)).end # 0}

\* the number captured by the leftmost match of pattern k
CapturedYears(k) == Rat(ParseInt(SearchExperience(k, Lower(call.text)).group), 1)

\* the level keywords and their years, in the order the claim lists them
LevelRules ==
    << [keywords |-> {"entry level", "junior"}, years |-> Rat(1, 1)],
       [keywords |-> {"mid level", "intermediate"}, years |-> Rat(3, 1)],
       [keywords |-> {"senior"}, years |-> Rat(7, 1)],
       [keywords |-> {"lead", "principal"}, years |-> Rat(10, 1)],
       [keywords |-> {"architect", "director"}, years |-> Rat(15, 1)] >>

\* the level rules one keyword of which occurs in the lowercased text
LevelRulesMatching ==
    {n \in DOMAIN LevelRules :
        \E keyword \in LevelRules[n].keywords : Contains(keyword, Lower(call.text))}

C16_SeniorAndLeadGivesTen ==
    ( /\ ReturnedFrom("extract_experience_years")
      /\ exc = ""
      /\ NumericPatternsMatching = {}
      /\ Contains("senior", Lower(call.text))
      /\ Contains("lead", Lower(call.text)) )
    => ret = Rat(10, 1)

(***************************************************************************)
(* Claims about calculate_location_match                                   *)
(***************************************************************************)
\* (a) some preferred location is a case-insensitive substring of job_location
RuleSubstring ==
    \E k \in DOMAIN call.preferred_locations :
        Contains(Lower(call.preferred_locations[k]), Lower(call.job_location))

\* (b) some word of some preferred location appears in job_location
RuleWord ==
    \E k \in DOMAIN call.preferred_locations :
        \E word \in Range(Split(Lower(call.preferred_locations[k]))) :
            Contains(word, Lower(call.job_location))

\* (c), (d) the work mode is in the preference list and in job_location
RuleWorkMode(mode) ==
    /\ mode \in Range(call.preferred_locations)
    /\ Contains(mode, Lower(call.job_location))

\* C20: calculate_location_match returns the value of the first rule that
\* matches, in the order (a) 1.0, (b) 0.7, (c) remote 1.0, (d) hybrid 0.8, and
\* 0.0 when none matches; rules are not combined.
C20_FirstRuleWins ==
    (ReturnedFrom("calculate_location_match") /\ exc = "") =>
        ret = IF RuleSubstring THEN One
              ELSE IF RuleWord THEN Rat(7, 10)
              ELSE IF RuleWorkMode("remote") THEN One
              ELSE IF RuleWorkMode("hybrid") THEN Rat(8, 10)
              ELSE Zero

\* a hybrid preference and a hybrid job: rules (a) and (d) both match and
\* the value of rule (a) is returned
C20_Witness ==
    /\ ReturnedFrom("calculate_location_match")
    /\ exc = ""
    /\ RuleSubstring
    /\ RuleWorkMode("hybrid")
    /\ ret = One

(***************************************************************************)
(* The intent classifier (src/ai_agent/intent_classifier.py, class         *)
(* IntentClassifier).  A QueryIntent is a record; its parameters are a     *)
(* function whose domain is the set of keys the dict has.                  *)
(***************************************************************************)
\* str.replace(old, new)
RECURSIVE ReplaceAll(_, _, _)
ReplaceAll(s, old, new) ==
    IF s = "" THEN ""
    ELSE IF StartsAt(s, 1, old)
         THEN new \o ReplaceAll(SubSeq(s, Len(old) + 1, Len(s)), old, new)
         ELSE At(s, 1) \o ReplaceAll(Tail(s), old, new)

\* the greatest element of a non-empty set of positions
Greatest(S) == CHOOSE i \in S : \A j \in S : j <= i

\* QueryIntent(intent=..., confidence=..., entities=..., parameters=...)
QueryIntent(intent, confidence, entities, parameters) ==
    [intent |-> intent, confidence |-> confidence, entities |-> entities,
     parameters |-> parameters]

\* entity_patterns["location"], ["experience"] have this many patterns
NumEntityLocationPatterns == 5
NumEntityExperiencePatterns == 6

\* entity_patterns["location"][k] matched at position i of s: the end of the
\* match and group(1).  In patterns 1 and 2 the blanks after the word go to
\* \s+ and the rest of the run to the group (an all-blank run leaves its last
\* blank to the group).  In pattern 3 the group is a run that starts at i and
\* stops as late as a following \s+area allows.
EntityLocationAt(k, s, i) ==
    CASE k \in {1, 2} ->   \* in\s+([A-Za-z\s,]+)   at\s+([A-Za-z\s,]+)
           LET Group(p, run, spaces) ==
                   LET taken == IF run > spaces THEN spaces ELSE spaces - 1
                   IN IF p = 0 \/ run = 0 \/ taken < 1 THEN NoMatch
                      ELSE [end |-> p + run, group |-> SubSeq(s, p + taken, p + run - 1)]
               Label(p) == Group(p, RunLen(s, p, LocationClass), RunLen(s, p, SpaceSet))
           IN Label(AfterLit(s, i, IF k = 1 THEN "in" ELSE "at"))
      [] k = 3 ->          \* ([A-Za-z\s,]+)\s+area
           LET Area(p) == AfterLit(s, AfterSome(s, p, SpaceSet), "area")
               Split3(splits) ==
                   IF splits = {} THEN NoMatch
                   ELSE [end |-> Area(Greatest(splits)),
                         group |-> SubSeq(s, i, Greatest(splits) - 1)]
           IN Split3({p \in (i + 1)..(i + RunLen(s, i, LocationClass) - 1) : Area(p) # 0})
      [] k = 4 -> [end |-> AfterLit(s, i, "remote"), group |-> ""]
      [] k = 5 -> [end |-> AfterLit(s, i, "hybrid"), group |-> ""]

\* re.search(entity_patterns["location"][k], s): the leftmost match
SearchEntityLocation(k, s) ==
    LET Leftmost(starts) == IF starts = {} THEN NoMatch ELSE EntityLocationAt(k, s, Least(starts))
    IN Leftmost({i \in 1..Len(s) : EntityLocationAt(k, s, i).end # 0})

\* [-+]
AfterSign(s, i) == IF i # 0 /\ At(s, i) \in {"-", "+"} THEN i + 1 ELSE 0

\* entity_patterns["experience"][k] matched at position i of s: the end of
\* the match, and group(1) for patterns 1 and 2, group(0) for the others
EntityExperienceAt(k, s, i) ==
    LET Whole(stop) == [end |-> stop, group |-> IF stop = 0 THEN "" ELSE SubSeq(s, i, stop - 1)]
        Captured(stop) ==
            [end |-> AfterYears(s, AfterSome(s, stop, SpaceSet)),
             group |-> IF stop = 0 THEN "" ELSE SubSeq(s, i, stop - 1)]
    IN CASE k = 1 ->   \* (\d+[-+]\d+)\s+years?
              Captured(AfterSome(s, AfterSign(s, AfterSome(s, i, DigitSet)), DigitSet))
         [] k = 2 ->   \* (\d+)\s+years?
              Captured(AfterSome(s, i, DigitSet))
         [] k = 3 ->   \* entry\s+level
              Whole(AfterLit(s, AfterSome(s, AfterLit(s, i, "entry"), SpaceSet), "level"))
         [] k = 4 -> Whole(AfterLit(s, i, "senior"))
         [] k = 5 -> Whole(AfterLit(s, i, "junior"))
         [] k = 6 -> Whole(AfterLit(s, i, "lead"))

\* re.search(entity_patterns["experience"][k], s): the leftmost match
SearchEntityExperience(k, s) ==
    LET Leftmost(starts) == IF starts = {} THEN NoMatch ELSE EntityExperienceAt(k, s, Least(starts))
    IN Leftmost({i \in 1..Len(s) : EntityExperienceAt(k, s, i).end # 0})

\* entity_patterns["skills"]: the pattern texts, which extract_basic_parameters
\* looks for as they are written, backslashes included
entity_skills ==
    <<"python", "java", "javascript", "react", "angular", "vue", "node\\.js", "sql",
      "mongodb", "aws", "azure", "docker", "kubernetes", "git", "machine\\s+learning",
      "ai", "data\\s+science", "devops", "agile">>

common_words == {"show", "find", "get", "me", "jobs", "for", "in", "at", "with", "experience"}

\* parameters["location"]: of the first pattern that matches, group(1)
\* stripped, or "remote" when the pattern has no group
LocationParameter(message_lower) ==
    LET First(matching) ==
            IF matching = {} THEN <<>>
            ELSE [location |->
                    IF Least(matching) <= 3
                    THEN Strip(SearchEntityLocation(Least(matching), message_lower).group)
                    ELSE "remote"]
    IN First({k \in 1..NumEntityLocationPatterns : SearchEntityLocation(k, message_lower).end # 0})

\* parameters["experience"]: of the first pattern that matches, group(1)
\* stripped, or the matched text when the pattern has no group
ExperienceParameter(message_lower) ==
    LET First(matching) ==
            IF matching = {} THEN <<>>
            ELSE [experience |->
                    IF Least(matching) <= 2
                    THEN Strip(SearchEntityExperience(Least(matching), message_lower).group)
                    ELSE SearchEntityExperience(Least(matching), message_lower).group]
    IN First({k \in 1..NumEntityExperiencePatterns : SearchEntityExperience(k, message_lower).end # 0})

\* parameters["skills"]: the pattern texts that occur in the message
SkillsParameter(message_lower) ==
    LET Named(found) ==
            IF found = <<>> THEN <<>>
            ELSE [skills |-> [n \in DOMAIN found |-> Title(ReplaceAll(found[n], "\\s+", " "))]]
    IN Named(SelectSeq(entity_skills, LAMBDA skill : Contains(skill, message_lower)))

\* parameters["query"]: the first five words that are not common words
QueryParameter(message) ==
    LET Joined(query_words) ==
            IF query_words = <<>> THEN <<>>
            ELSE [query |-> Join(Prefix(query_words, 5), " ")]
    IN Joined(SelectSeq(Split(message), LAMBDA word : Lower(word) \notin common_words))

extract_basic_parameters(message) ==
    LocationParameter(Lower(message)) @@ ExperienceParameter(Lower(message))
        @@ SkillsParameter(Lower(message)) @@ QueryParameter(message)

\* the keyword tests of pattern_based_classification, in order
intent_keywords ==
    << [words |-> {"job", "position", "opening", "vacancy", "hire", "recruit"},
        intent |-> "job_search", confidence |-> Rat(7, 10)],
       [words |-> {"resume", "cv", "profile", "skills", "experience"},
        intent |-> "resume_analysis", confidence |-> Rat(7, 10)],
       [words |-> {"advice", "tip", "help", "guide", "how to"},
        intent |-> "career_advice", confidence |-> Rat(7, 10)],
       [words |-> {"detail", "information", "about", "company"},
        intent |-> "job_details", confidence |-> Rat(6, 10)],
       [words |-> {"similar", "like", "same", "related"},
        intent |-> "similar_jobs", confidence |-> Rat(6, 10)] >>

\* the tests of intent_keywords a word of which occurs in the message
KeywordTestsPassed(message) ==
    {n \in DOMAIN intent_keywords :
        \E word \in intent_keywords[n].words : Contains(word, Lower(message))}

pattern_based_classification(message) ==
    LET Classified(passed) ==
            IF passed = {}
            THEN QueryIntent("general_question", Rat(5, 10), <<>>,
                             extract_basic_parameters(message))
            ELSE QueryIntent(intent_keywords[Least(passed)].intent,
                             intent_keywords[Least(passed)].confidence, <<>>,
                             extract_basic_parameters(message))
    IN Classified(KeywordTestsPassed(message))

(***************************************************************************)
(* classify_intent.  A value decoded from JSON carries its Python type.    *)
(* The replies of the language model are the texts below; json_loads is    *)
(* json.loads on them.                                                     *)
(***************************************************************************)
JStr(s) == [type |-> "str", value |-> s]
JNum(x) == [type |-> "float", value |-> x]
JList(seq) == [type |-> "list", value |-> seq]
JDict(items) == [type |-> "dict", value |-> items]
JNull == [type |-> "NoneType", value |-> None]

\* what stands for the reply when the call of the language model raises
NoReply == "<APIError>"

\* the reply of test_intent_classification_fallback
ReplyNotJson == "invalid json"
ReplyList == "[]"
ReplyNull == "null"
ReplyEmptyRecord == "{}"
ReplySearch == "{\"intent\": \"job_search\", \"confidence\": 0.9, \"parameters\": {\"location\": \" Pune \", \"skills\": [\"Python\", \"\"]}}"
ReplyConfidenceTooHigh == "{\"intent\": \"job_search\", \"confidence\": 1.5}"
ReplyIntentNull == "{\"intent\": null, \"confidence\": 0.9}"
ReplyParametersNull == "{\"intent\": \"similar_jobs\", \"confidence\": 0.9, \"parameters\": null}"
ReplyResume == "{\"intent\": \"resume_analysis\", \"confidence\": 1, \"parameters\": {\"resume_text\": \"5 years of experience in Python\"}}"
ReplyCompany == "{\"intent\": \"job_details\", \"confidence\": 0.6, \"parameters\": {\"company\": \"TechCorp\", \"job_id\": \"\"}}"
ReplySimilar == "{\"intent\": \"similar_jobs\", \"confidence\": 0.8, \"entities\": [], \"parameters\": {\"job_id\": \"mock_2\"}}"
ReplyOtherIntent == "{\"intent\": \"small_talk\", \"confidence\": 0.4, \"parameters\": {\"topic\": \"weather\"}}"

\* json.loads(response_text)
json_loads(response_text) ==
    CASE response_text = ReplyNotJson -> Raised("JSONDecodeError")
      [] response_text = ReplyList -> Returned(JList(<<>>))
      [] response_text = ReplyNull -> Returned(JNull)
      [] response_text = ReplyEmptyRecord -> Returned(JDict(<<>>))
      [] response_text = ReplySearch ->
           Returned(JDict([intent |-> JStr("job_search"), confidence |-> JNum(Rat(9, 10)),
                           parameters |-> JDict([location |-> JStr(" Pune "),
                                                 skills |-> JList(<<JStr("Python"), JStr("")>>)])]))
      [] response_text = ReplyConfidenceTooHigh ->
           Returned(JDict([intent |-> JStr("job_search"), confidence |-> JNum(Rat(15, 10))]))
      [] response_text = ReplyIntentNull ->
           Returned(JDict([intent |-> JNull, confidence |-> JNum(Rat(9, 10))]))
      [] response_text = ReplyParametersNull ->
           Returned(JDict([intent |-> JStr("similar_jobs"), confidence |-> JNum(Rat(9, 10)),
                           parameters |-> JNull]))
      [] response_text = ReplyResume ->
           Returned(JDict([intent |-> JStr("resume_analysis"), confidence |-> JNum(One),
                           parameters |-> JDict([resume_text |->
                                                   JStr("5 years of experience in Python")])]))
      [] response_text = ReplyCompany ->
           Returned(JDict([intent |-> JStr("job_details"), confidence |-> JNum(Rat(6, 10)),
                           parameters |-> JDict([company |-> JStr("TechCorp"),
                                                 job_id |-> JStr("")])]))
      [] response_text = ReplySimilar ->
           Returned(JDict([intent |-> JStr("similar_jobs"), confidence |-> JNum(Rat(8, 10)),
                           entities |-> JList(<<>>),
                           parameters |-> JDict([job_id |-> JStr("mock_2")])]))
      [] response_text = ReplyOtherIntent ->
           Returned(JDict([intent |-> JStr("small_talk"), confidence |-> JNum(Rat(4, 10)),
                           parameters |-> JDict([topic |-> JStr("weather")])]))

\* dict.get(key, default)
Get(items, key, default) == IF key \in DOMAIN items THEN items[key] ELSE default

\* bool(value) of a decoded value
JTruthy(v) ==
    CASE v.type = "str" -> v.value # ""
      [] v.type = "float" -> v.value # Zero
      [] v.type = "list" -> v.value # <<>>
      [] v.type = "dict" -> DOMAIN v.value # {}
      [] v.type = "NoneType" -> FALSE

\* the keys clean_parameters copies as stripped strings
cleaned_keys == {"query", "location", "experience", "job_id", "company", "topic", "resume_text"}

\* [str(skill).strip() for skill in skills if skill]
CleanSkills(skills) ==
    LET Stripped(kept) == [n \in DOMAIN kept |-> Strip(kept[n].value)]
    IN Stripped(SelectSeq(skills, JTruthy))

\* clean_parameters(parameters) for a dict of strings and lists of strings
clean_parameters(parameters) ==
    [key \in {k \in DOMAIN parameters : (k \in cleaned_keys \cup {"skills"}) /\ JTruthy(parameters[k])} |->
        IF key # "skills" THEN Strip(parameters[key].value)
        ELSE IF parameters[key].type = "list" THEN CleanSkills(parameters[key].value)
        ELSE <<Strip(parameters[key].value)>>]

\* `"query" in parameters` raises when parameters is None or a number
CleanParametersRaises(parameters) == parameters.type \in {"NoneType", "float"}

\* QueryIntent(...) raises a ValidationError: intent is a str, confidence a
\* float from 0 to 1, entities a list and parameters a dict
QueryIntentRaises(intent, confidence, entities) ==
    \/ intent.type # "str"
    \/ confidence.type # "float"
    \/ RLt(confidence.value, Zero)
    \/ RLt(One, confidence.value)
    \/ entities.type # "list"

\* the body of the try statement of classify_intent; `generated` is the text
\* self.llm.generate answers, NoReply when it raises
ClassifyIntentBody(message, generated) ==
    LET Build(intent, confidence, entities, parameters) ==
            IF CleanParametersRaises(parameters) THEN Raised("TypeError")
            ELSE IF QueryIntentRaises(intent, confidence, entities)
            THEN Raised("ValidationError")
            ELSE Returned(QueryIntent(intent.value, confidence.value, entities.value,
                                      clean_parameters(parameters.value)))
        Extract(items) ==
            Build(Get(items, "intent", JStr("general_question")),
                  Get(items, "confidence", JNum(Rat(8, 10))),
                  Get(items, "entities", JList(<<>>)),
                  Get(items, "parameters", JDict(<<>>)))
        Parsed(loaded) ==
            IF loaded.exc = "JSONDecodeError"
            THEN Returned(pattern_based_classification(message))
            ELSE IF loaded.value.type # "dict" THEN Raised("AttributeError")
            ELSE Extract(loaded.value.value)
    IN IF generated = NoReply THEN Raised("APIError")
       ELSE Parsed(json_loads(generated))

\* classify_intent without the outer except clause
ClassifyIntentUnhandled(message, generated) == ClassifyIntentBody(message, generated)

classify_intent(message, generated) ==
    LET Handled(tried) ==
            IF tried.exc # "" THEN Returned(pattern_based_classification(message))
            ELSE tried
    IN Handled(ClassifyIntentBody(message, generated))

(***************************************************************************)
(* Calls of classify_intent                                                *)
(***************************************************************************)
Messages ==
    {"Show me data scientist jobs", "Find Python jobs in Bangalore",
     "Review my resume with 5 years experience", "Any tips for a senior lead",
     "Tell me about the company", "Something like the same", "Hello there",
     "Remote or hybrid work, 3-5 years, bay area", ""}

Replies ==
    {ReplyNotJson, ReplyList, ReplyNull, ReplyEmptyRecord, ReplySearch,
     ReplyConfidenceTooHigh, ReplyIntentNull, ReplyParametersNull, ReplyResume,
     ReplyCompany, ReplySimilar, ReplyOtherIntent}

\* how self.llm.generate ends: with a reply, or with an exception of the client
Generated == Replies \cup {NoReply}

ClassifyCalls == [op : {"classify_intent"}, message : Messages, generated : Generated]

ClassifyIntent ==
    /\ pc = "called"
    /\ call.op = "classify_intent"
    /\ Completes(classify_intent(call.message, call.generated))

InitIntent == Called(ClassifyCalls)

NextIntent == ClassifyIntent

SpecIntent == InitIntent /\ [][NextIntent]_vars

(***************************************************************************)
(* Claims about classify_intent                                            *)
(***************************************************************************)
\* the language model failed, or its reply is not JSON, or not a valid record
NoValidRecord == ClassifyIntentBody(call.message, call.generated).exc # "" \/ (call.generated # NoReply /\ json_loads(call.generated).exc # "")

JobSearchKeywords == intent_keywords[1].words

\* C19: classify_intent never raises; when the language-model call fails, or
\* its reply is not valid JSON or not a valid intent record, the result is
\* exactly pattern_based_classification(message), whose confidence is 0.7, 0.6
\* or 0.5, and 0.7 for a message containing a job-search keyword.
C19_FallbackOnAnyFailure ==
    ReturnedFrom("classify_intent") =>
        /\ exc = ""
        /\ NoValidRecord =>
              ( /\ ret = pattern_based_classification(call.message)
                /\ ret.confidence \in {Rat(7, 10), Rat(6, 10), Rat(5, 10)}
                /\ ( (\E word \in JobSearchKeywords : Contains(word, Lower(call.message)))
                       => ret.confidence = Rat(7, 10) ) )

\* a reply that is JSON but not a valid record (the confidence is above 1) to
\* a message with a job-search keyword: the fallback result, confidence 0.7
C19_Witness ==
    /\ ReturnedFrom("classify_intent")
    /\ exc = ""
    /\ call.generated = ReplyConfidenceTooHigh
    /\ "job" \in JobSearchKeywords /\ Contains("job", Lower(call.message))
    /\ ret.intent = "job_search"
    /\ ret.confidence = Rat(7, 10)

(***************************************************************************)
(* The chat agent (src/ai_agent/agent.py, class JobAssistantAgent).        *)
(* query is a coroutine: it runs without interruption up to the call of    *)
(* the language model inside a handler, where it is suspended and other    *)
(* queries of the same agent can run, and then from the reply to its       *)
(* return.  A handler that returns without calling the language model does *)
(* not suspend the query.  The clock fields of a session (created_at,      *)
(* updated_at) and the fields of a message other than role and content are *)
(* left out.                                                               *)
(***************************************************************************)
ChatMessage(role, content) == [role |-> role, content |-> content]
ChatSession(session_id, user_id) == [session_id |-> session_id, user_id |-> user_id, messages |-> <<>>]
ChatResponse(response, session_id, confidence) == [response |-> response, session_id |-> session_id, confidence |-> confidence]

\* the handler generate_response chooses for an intent
HandlerOf(intent) ==
    IF intent.intent \in {"job_search", "resume_analysis", "career_advice", "job_details", "similar_jobs"}
    THEN intent.intent
    ELSE "general_question"

\* what the except clause of each handler returns
handler_error_text ==
    [job_search |-> "I encountered an error while searching for jobs. Please try again.",
     resume_analysis |-> "I encountered an error while analyzing your resume. Please try again.",
     career_advice |-> "I'd be happy to provide career advice! Please let me know what specific career guidance you're looking for.",
     job_details |-> "I encountered an error while fetching job details. Please try again.",
     similar_jobs |-> "I encountered an error while finding similar jobs. Please try again.",
     general_question |-> "I'd be happy to help! Please let me know what job-related questions you have."]

\* parameters.get(key, "")
Parameter(parameters, key) == Get(parameters, key, "")

\* handle_job_details: the jobs whose company contains `company`, or, with no
\* company, whose job_id contains `job_id`
DetailsMatchingJobs(jobs_data, company, job_id) ==
    IF company # ""
    THEN SelectSeq(jobs_data, LAMBDA job : Contains(Lower(company), Lower(job.company)))
    ELSE SelectSeq(jobs_data, LAMBDA job : Contains(Lower(job_id), Lower(job.job_id)))

\* handle_similar_jobs: the first job whose job_id contains `job_id`, in a
\* sequence of at most one element
SimilarReference(jobs_data, job_id) ==
    Prefix(SelectSeq(jobs_data, LAMBDA job : Contains(Lower(job_id), Lower(job.job_id))), 1)

\* handle_similar_jobs: the other jobs that share a skill with the reference
\* job or whose location contains, or is contained in, its location
SimilarToReference(jobs_data, reference_job) ==
    SelectSeq(jobs_data, LAMBDA job :
        /\ job.job_id # reference_job.job_id
        /\ \/ Range(MapLower(reference_job.skills)) \cap Range(MapLower(job.skills)) # {}
           \/ Contains(Lower(reference_job.location), Lower(job.location))
           \/ Contains(Lower(job.location), Lower(reference_job.location)))

\* what the handler returns before it calls the language model, NoneStr when
\* it goes on to call it
EarlyReturn(handler, parameters, jobs_data) ==
    CASE handler = "job_search" ->
           IF jobs_data = <<>>
           THEN "I apologize, but I don't have access to job data at the moment. Please try again later."
           ELSE NoneStr
      [] handler = "resume_analysis" ->
           IF Parameter(parameters, "resume_text") = ""
           THEN "I'd be happy to analyze your resume! Please share your resume text or upload it, and I'll help you find matching job opportunities."
           ELSE NoneStr
      [] handler = "job_details" ->
           LET Details(company, job_id) ==
                   IF job_id = "" /\ company = ""
                   THEN "I'd be happy to provide job details! Please specify which job or company you'd like to know more about."
                   ELSE IF DetailsMatchingJobs(jobs_data, company, job_id) = <<>>
                   THEN "I couldn't find any jobs matching '"
                            \o (IF company # "" THEN company ELSE job_id)
                            \o "'. Please check the company name or job ID and try again."
                   ELSE NoneStr
           IN Details(Parameter(parameters, "company"), Parameter(parameters, "job_id"))
      [] handler = "similar_jobs" ->
           LET Similar(job_id, reference) ==
                   IF job_id = ""
                   THEN "I'd be happy to find similar jobs! Please specify which job you'd like me to find matches for."
                   ELSE IF reference = <<>>
                   THEN "I couldn't find a job with ID '" \o job_id
                            \o "'. Please check the job ID and try again."
                   ELSE IF SimilarToReference(jobs_data, reference[1]) = <<>>
                   THEN "I couldn't find any similar jobs to '" \o reference[1].title
                            \o "'. This might be a unique position or we may need to expand our search criteria."
                   ELSE NoneStr
           IN Similar(Parameter(parameters, "job_id"),
                      SimilarReference(jobs_data, Parameter(parameters, "job_id")))
      [] OTHER -> NoneStr

\* generate_response: the text of the handler.  `answered` is what the language
\* model answers when the handler calls it, NoReply when the call raises.
generate_response(intent, jobs_data, answered) ==
    LET Text(early) ==
            IF early # NoneStr THEN early
            ELSE IF answered = NoReply THEN handler_error_text[HandlerOf(intent)]
            ELSE answered
    IN Text(EarlyReturn(HandlerOf(intent), intent.parameters, jobs_data))

\* the handler of the intent calls the language model
CallsLanguageModel(intent, jobs_data) ==
    EarlyReturn(HandlerOf(intent), intent.parameters, jobs_data) = NoneStr

\* what the except clause of query answers
query_error_text == "I apologize, but I encountered an error processing your request. Please try again."

\* str(uuid.uuid4()): an identifier no session has
UuidPool == <<"uuid-1", "uuid-2", "uuid-3", "uuid-4">>
Uuid4(sessions) == UuidPool[Least({n \in DOMAIN UuidPool : UuidPool[n] \notin DOMAIN sessions})]

\* session_id after `if not session_id: session_id = str(uuid.uuid4())`
SessionIdOf(session_id, sessions) == IF Truthy(session_id) THEN session_id ELSE Uuid4(sessions)

\* self.sessions after `if session_id not in self.sessions: ...`
WithSession(sessions, session_id, user_id) ==
    IF session_id \in DOMAIN sessions THEN sessions
    ELSE sessions @@ (session_id :> ChatSession(session_id, user_id))

\* self.sessions after session.messages.append(message)
WithMessage(sessions, session_id, message) ==
    [sessions EXCEPT ![session_id].messages = Append(@, message)]

(***************************************************************************)
(* Queries.  Each task runs one query at a time; call, ret, exc, locals    *)
(* and pc hold one value for each task.                                    *)
(***************************************************************************)
Tasks == {"task1", "task2"}
MaxQueries == 2

AgentMessages == {"Find Python jobs in Bangalore", "Review my resume with 5 years experience"}
AgentGenerated == {NoReply, ReplySimilar}
Answers == {"Here is what I found.", NoReply}

\* what self.intent_classifier.classify_intent(message) can return
ClassifiedAs ==
    [message \in AgentMessages |->
        {classify_intent(message, generated) : generated \in AgentGenerated}]

\* the session ids the responses so far have carried
ReturnedSessionIds == {history[n].ret.session_id : n \in DOMAIN history}

\* the queries started so far
Started == Len(history) + Cardinality({t \in Tasks : pc[t] = "awaiting"})

\* query returns chat_response; the finished call is added to history with
\* the session ids there were when it started
QueryReturns(t, started, known, sessions, chat_response) ==
    /\ self' = [self EXCEPT !.sessions = sessions]
    /\ call' = [call EXCEPT ![t] = started]
    /\ ret' = [ret EXCEPT ![t] = chat_response]
    /\ exc' = [exc EXCEPT ![t] = ""]
    /\ locals' = [locals EXCEPT ![t] = None]
    /\ pc' = [pc EXCEPT ![t] = "returned"]
    /\ history' = Append(history, [call |-> started, ret |-> chat_response, known |-> known])

\* query without its except clause: the exception leaves the call
QueryPropagates(t, started, known, sessions, session_id) ==
    /\ self' = [self EXCEPT !.sessions = sessions]
    /\ call' = [call EXCEPT ![t] = started]
    /\ ret' = [ret EXCEPT ![t] = None]
    /\ exc' = [exc EXCEPT ![t] = started.classified.exc]
    /\ locals' = [locals EXCEPT ![t] = None]
    /\ pc' = [pc EXCEPT ![t] = "returned"]
    /\ history' = history

\* an except clause that puts the sessions back as the query found them
QueryExceptRollsBack(t, started, known, sessions, session_id) ==
    QueryReturns(t, started, known, self.sessions,
                 ChatResponse(query_error_text, IF Truthy(session_id) THEN session_id ELSE "error", Zero))

\* the except clause of query
QueryExcept(t, started, known, sessions, session_id) ==
    QueryReturns(t, started, known, sessions,
                 ChatResponse(query_error_text, IF Truthy(session_id) THEN session_id ELSE "error", Zero))

\* the rest of query once generate_response has returned response_content
QueryAnswers(t, started, known, sessions, session_id, intent, response_content) ==
    QueryReturns(t, started, known,
                 WithMessage(sessions, session_id, ChatMessage("assistant", response_content)),
                 ChatResponse(response_content, session_id, intent.confidence))

\* query is suspended in the handler's call of the language model
QueryAwaits(t, started, known, sessions, session_id, intent) ==
    /\ self' = [self EXCEPT !.sessions = sessions]
    /\ call' = [call EXCEPT ![t] = started]
    /\ locals' = [locals EXCEPT ![t] = [session_id |-> session_id, intent |-> intent, known |-> known]]
    /\ pc' = [pc EXCEPT ![t] = "awaiting"]
    /\ ret' = [ret EXCEPT ![t] = None]
    /\ exc' = [exc EXCEPT ![t] = ""]
    /\ UNCHANGED history

\* query from its first statement to the call of the language model in the
\* handler, or to its return when that call is not reached
QueryBegins(t, started, session_id) ==
    LET Classify(sessions) ==
            IF started.classified.exc # ""
            THEN QueryExcept(t, started, DOMAIN self.sessions, sessions, session_id)
            ELSE IF CallsLanguageModel(started.classified.value, self.jobs_data)
            THEN QueryAwaits(t, started, DOMAIN self.sessions, sessions, session_id,
                             started.classified.value)
            ELSE QueryAnswers(t, started, DOMAIN self.sessions, sessions, session_id,
                              started.classified.value,
                              EarlyReturn(HandlerOf(started.classified.value),
                                          started.classified.value.parameters,
                                          self.jobs_data))
    IN Classify(WithMessage(WithSession(self.sessions, session_id, started.user_id),
                            session_id, ChatMessage("user", started.message)))

\* a call of query; `classified` is how self.intent_classifier.classify_intent
\* ends: as the classifier of this repository ends, or with the exception the
\* classifier of test_error_handling raises
QueryCall(message, session_id, classified) ==
    [op |-> "query", message |-> message, session_id |-> session_id, user_id |-> NoneStr,
     classified |-> classified]

QueryStart(t) ==
    /\ pc[t] # "awaiting"
    /\ Started < MaxQueries
    /\ \E message \in AgentMessages, session_id \in {NoneStr, "s1"} \cup ReturnedSessionIds :
          \/ \E classified \in ClassifiedAs[message] :
                QueryBegins(t, QueryCall(message, session_id, classified),
                            SessionIdOf(session_id, self.sessions))
          \/ QueryBegins(t, QueryCall(message, session_id, Raised("Exception")),
                         SessionIdOf(session_id, self.sessions))

\* query from the reply of the language model to its return
QueryFinish(t) ==
    /\ pc[t] = "awaiting"
    /\ \E answered \in Answers :
          QueryAnswers(t, call[t], locals[t].known, self.sessions, locals[t].session_id,
                       locals[t].intent,
                       generate_response(locals[t].intent, self.jobs_data, answered))

\* JobAssistantAgent.__init__: no session; the job data the agent is given
InitAgent ==
    /\ self \in [sessions : {<<>>}, jobs_data : {<<>>, get_mock_jobs}]
    /\ call = [t \in Tasks |-> None]
    /\ ret = [t \in Tasks |-> None]
    /\ exc = [t \in Tasks |-> ""]
    /\ locals = [t \in Tasks |-> None]
    /\ pc = [t \in Tasks |-> "idle"]
    /\ history = <<>>

NextAgent ==
    \/ \E t \in Tasks : QueryStart(t)
    \/ \E t \in Tasks : QueryFinish(t)

SpecAgent == InitAgent /\ [][NextAgent]_vars

(***************************************************************************)
(* Claims about query                                                      *)
(***************************************************************************)
\* the number of finished queries whose response carries session_id
QueriesOn(session_id) ==
    Cardinality({n \in DOMAIN history : history[n].ret.session_id = session_id})

\* user, assistant, user, assistant, ...
Alternating(messages) ==
    \A n \in DOMAIN messages :
        messages[n].role = IF n % 2 = 1 THEN "user" ELSE "assistant"

NoQueryUnderWay == \A t \in Tasks : pc[t] # "awaiting"

\* C17 as stated: after n queries on the same session id the session holds
\* exactly 2n messages, alternating user then assistant; every response
\* carries the session id that was passed in; and a query without a session
\* id creates a new session, whose id the response carries.
C17_TwoMessagesPerQuery ==
    /\ NoQueryUnderWay =>
          \A session_id \in DOMAIN self.sessions :
              /\ Len(self.sessions[session_id].messages) = 2 * QueriesOn(session_id)
              /\ Alternating(self.sessions[session_id].messages)
    /\ \A n \in DOMAIN history :
          IF Truthy(history[n].call.session_id)
          THEN history[n].ret.session_id = history[n].call.session_id
          ELSE /\ history[n].ret.session_id \notin history[n].known
               /\ history[n].ret.session_id \in DOMAIN self.sessions

\* C18: when processing a query raises, as when classify_intent fails, query
\* does not let the exception out: it returns a response whose text mentions
\* an error and whose confidence is 0.0.
C18_ErrorResponse ==
    \A t \in Tasks :
        pc[t] = "returned" =>
            /\ exc[t] = ""
            /\ call[t].classified.exc # "" =>
                  ( /\ Contains("error", Lower(ret[t].response))
                    /\ ret[t].confidence = Zero )

\* a query whose classification raised has returned the apology of the except
\* clause, with the session id it was given
C18_Witness ==
    \E t \in Tasks :
        /\ pc[t] = "returned"
        /\ call[t].classified = Raised("Exception")
        /\ call[t].session_id = "s1"
        /\ ret[t] = ChatResponse(query_error_text, "s1", Zero)

\* the messages of the session, none when there is no such session
MessagesOf(sessions, session_id) ==
    IF session_id \in DOMAIN sessions THEN sessions[session_id].messages ELSE <<>>

\* this step is the return of a query that failed after its user message
\* was recorded
FailedQueryReturns ==
    /\ Len(history') = Len(history) + 1
    /\ history'[Len(history')].call.classified.exc # ""

\* the session of the failed query afterwards, and what it held before
FailedSessionAfter == MessagesOf(self'.sessions, history'[Len(history')].ret.session_id)
FailedSessionBefore == MessagesOf(self.sessions, history'[Len(history')].ret.session_id)

Workers == {"worker1", "worker2", "worker3"}

ConcurrentTexts ==
    { "Python developer with 7 years of experience in React, based in Bangalore",
      "Fresher looking for remote full-time work" }

ConcurrentCalls ==
    [op : {"analyze_resume"}, resume_text : ConcurrentTexts]
      \cup [op : {"calculate_job_match_score"}, job : {get_mock_jobs[1]},
            skills : {<<"Python", "React">>}, experience_years : {Rat(7, 1)},
            preferred_locations : {<<"Bangalore">>}]
      \cup [op : {"calculate_job_similarity"}, job1 : {get_mock_jobs[1]},
            job2 : {get_mock_jobs[2]}]

\* worker w goes from `from` to `to`, with `frame` as its local variables
WorkerSteps(w, from, to, frame) ==
    /\ pc[w] = from
    /\ pc' = [pc EXCEPT ![w] = to]
    /\ locals' = [locals EXCEPT ![w] = frame]
    /\ UNCHANGED <<call, ret, exc, self, history>>

\* worker w returns value
WorkerReturns(w, from, value) ==
    /\ pc[w] = from
    /\ pc' = [pc EXCEPT ![w] = "returned"]
    /\ ret' = [ret EXCEPT ![w] = value]
    /\ UNCHANGED <<call, exc, locals, self, history>>

\* extract_skills_from_text keeping its result in a field of the recommender,
\* where the results of all calls add up
AnalyzeSkillsIntoField(w) ==
    /\ call[w].op = "analyze_resume"
    /\ pc[w] = "called"
    /\ pc' = [pc EXCEPT ![w] = "skills"]
    /\ self' = [self EXCEPT !.jobs = @ \o extract_skills_from_text(call[w].resume_text)]
    /\ locals' = [locals EXCEPT ![w] = [skills |-> self'.jobs]]
    /\ UNCHANGED <<call, ret, exc, history>>

\* skills = self.extract_skills_from_text(resume_text)
AnalyzeSkills(w) ==
    /\ call[w].op = "analyze_resume"
    /\ WorkerSteps(w, "called", "skills",
                   [skills |-> extract_skills_from_text(call[w].resume_text)])

\* experience_years = self.extract_experience_years(resume_text)
AnalyzeExperience(w) ==
    /\ call[w].op = "analyze_resume"
    /\ WorkerSteps(w, "skills", "experience",
                   locals[w] @@ [experience_years |-> extract_experience_years(call[w].resume_text)])

\* preferred_locations = self.extract_preferred_locations(resume_text)
AnalyzeLocations(w) ==
    /\ call[w].op = "analyze_resume"
    /\ WorkerSteps(w, "experience", "locations",
                   locals[w] @@ [preferred_locations |-> extract_preferred_locations(call[w].resume_text)])

\* job_preferences = self.extract_job_preferences(resume_text)
AnalyzePreferences(w) ==
    /\ call[w].op = "analyze_resume"
    /\ WorkerSteps(w, "locations", "preferences",
                   locals[w] @@ [job_preferences |-> extract_job_preferences(call[w].resume_text)])

\* recommendations = await self.get_recommendations_for_resume(...) and the
\* return of the analysis
AnalyzeReturns(w) ==
    /\ call[w].op = "analyze_resume"
    /\ WorkerReturns(w, "preferences", AnalysisOf(locals[w], get_mock_jobs, FALSE).value)

ConcurrentMatchScore(w) ==
    /\ call[w].op = "calculate_job_match_score"
    /\ WorkerReturns(w, "called",
                     calculate_job_match_score(call[w].job, call[w].skills,
                         call[w].experience_years, call[w].preferred_locations))

ConcurrentSimilarity(w) ==
    /\ call[w].op = "calculate_job_similarity"
    /\ WorkerReturns(w, "called", calculate_job_similarity(call[w].job1, call[w].job2))

InitConcurrent ==
    /\ call \in [Workers -> ConcurrentCalls]
    /\ ret = [w \in Workers |-> None]
    /\ exc = [w \in Workers |-> ""]
    /\ locals = [w \in Workers |-> None]
    /\ pc = [w \in Workers |-> "called"]
    /\ self = JobRecommenderFields
    /\ history = <<>>

NextConcurrent ==
    \/ \E w \in Workers : AnalyzeSkills(w)
    \/ \E w \in Workers : AnalyzeExperience(w)
    \/ \E w \in Workers : AnalyzeLocations(w)
    \/ \E w \in Workers : AnalyzePreferences(w)
    \/ \E w \in Workers : AnalyzeReturns(w)
    \/ \E w \in Workers : ConcurrentMatchScore(w)
    \/ \E w \in Workers : ConcurrentSimilarity(w)

SpecConcurrent == InitConcurrent /\ [][NextConcurrent]_vars

(***************************************************************************)
(* Claims about concurrent calls                                           *)
(***************************************************************************)
\* worker w has returned from analyze_resume
Analyzed(w) == call[w].op = "analyze_resume" /\ pc[w] = "returned"

\* worker w is between two steps of analyze_resume
Analyzing(w) ==
    /\ call[w].op = "analyze_resume"
    /\ pc[w] \in {"skills", "experience", "locations", "preferences"}

\* the four extracted fields of two analyses are equal
SameProfile(a, b) ==
    /\ a.skills = b.skills
    /\ a.experience_years = b.experience_years
    /\ a.preferred_locations = b.preferred_locations
    /\ a.job_preferences = b.job_preferences

RequiredYearsRules ==
    << [keywords |-> {"entry", "junior"}, years |-> Rat(1, 1)],
       [keywords |-> {"mid", "intermediate"}, years |-> Rat(3, 1)],
       [keywords |-> {"senior"}, years |-> Rat(7, 1)],
       [keywords |-> {"lead", "principal"}, years |-> Rat(10, 1)] >>

\* the rules one keyword of which occurs in the lowercased experience text
RequiredRulesMatching ==
    {n \in DOMAIN RequiredYearsRules :
        \E keyword \in RequiredYearsRules[n].keywords :
            Contains(keyword, Lower(call.job_experience))}

\* the numbers of the experience text that a sign follows: <<i, j>> when the
\* characters i..j are a whole run of digits and character j + 1 is - or +
SignedNumbers ==
    {p \in (1..Len(call.job_experience)) \X (1..Len(call.job_experience)) :
        /\ p[1] <= p[2]
        /\ \A k \in p[1]..p[2] : At(call.job_experience, k) \in DigitSet
        /\ At(call.job_experience, p[1] - 1) \notin DigitSet
        /\ At(call.job_experience, p[2] + 1) \in {"-", "+"}}

\* the first of them
FirstSignedNumber == CHOOSE p \in SignedNumbers : \A q \in SignedNumbers : p[1] <= q[1]

\* A of the range A-B
RangeMin == Rat(ParseInt(SubSeq(call.job_experience, FirstSignedNumber[1], FirstSignedNumber[2])), 1)

\* the ends j of the digits that follow the sign of the range
RangeMaxEnds ==
    {j \in FirstSignedNumber[2] + 2 .. Len(call.job_experience) :
        /\ \A k \in FirstSignedNumber[2] + 2 .. j : At(call.job_experience, k) \in DigitSet
        /\ At(call.job_experience, j + 1) \notin DigitSet}

\* B of the range A-B
RangeMax == Rat(ParseInt(SubSeq(call.job_experience, FirstSignedNumber[2] + 2, CHOOSE j \in RangeMaxEnds : TRUE)), 1)

\* the required years of a text without level keyword, where a range without
\* explicit maximum requires `open` years more than its minimum
RangeYears(open) ==
    IF SignedNumbers = {} THEN Rat(5, 1)
    ELSE IF RangeMaxEnds = {} THEN RAdd(RangeMin, open)
    ELSE RDiv(RAdd(RangeMin, RangeMax), Rat(2, 1))

\* C21 as stated: the required years are the level-keyword value; or, for a
\* numeric range A-B, the midpoint (A+B)/2; or, for a range with no explicit
\* maximum, min+2; or 5.0 when nothing parses.
C21_Original_OpenRangePlusTwo ==
    ReturnedFrom("calculate_experience_match") =>
        IF RequiredRulesMatching # {}
        THEN \E n \in RequiredRulesMatching : locals.job_years = RequiredYearsRules[n].years
        ELSE locals.job_years = RangeYears(Rat(2, 1))

\* C21 amended: the required years are the value of the first level rule, in
\* the order entry/junior 1, mid/intermediate 3, senior 7, lead/principal 10,
\* one keyword of which occurs in the text; or, for the first number of the
\* text that - or + follows, the midpoint (A+B)/2 of it and the number after
\* the sign; or, when no number follows the sign, the midpoint of A and A+2,
\* which is A+1; or 5.0 when nothing parses.
C21_RequiredYears ==
    ReturnedFrom("calculate_experience_match") =>
        IF RequiredRulesMatching # {}
        THEN \E n \in RequiredRulesMatching :
                /\ \A other \in RequiredRulesMatching : n <= other
                /\ locals.job_years = RequiredYearsRules[n].years
        ELSE locals.job_years = RangeYears(Rat(1, 1))

\* "3+ years": a range without explicit maximum, required years 4
C21_Witness ==
    /\ ReturnedFrom("calculate_experience_match")
    /\ call.job_experience = "3+ years"
    /\ RequiredRulesMatching = {}
    /\ SignedNumbers # {} /\ RangeMaxEnds = {}
    /\ RangeMin = Rat(3, 1)
    /\ locals.job_years = Rat(4, 1)

\* C22: for a candidate with c years below the required r years the
\* experience sub-score is max(0, 1 - (r - c)/r); 2 years against a "senior"
\* job (r = 7) gives exactly 2/7.
C22_UnderqualifiedFalloff ==
    ReturnedFrom("calculate_experience_match") =>
        /\ ( /\ RLt(call.resume_years, locals.job_years)
             /\ locals.job_years # Zero )
              => ret = RMax(Zero, RSub(One, RDiv(RSub(locals.job_years, call.resume_years),
                                                 locals.job_years)))
        /\ ( /\ call.resume_years = Rat(2, 1)
             /\ Lower(call.job_experience) = "senior" )
              => (locals.job_years = Rat(7, 1) /\ ret = Rat(2, 7))

\* 2 years against a "Senior" job
C22_Witness ==
    /\ ReturnedFrom("calculate_experience_match")
    /\ call.resume_years = Rat(2, 1)
    /\ call.job_experience = "Senior"
    /\ locals.job_years = Rat(7, 1)
    /\ RLt(call.resume_years, locals.job_years)
    /\ ret = Rat(2, 7)

\* C30: calculate_location_match never returns 0.8: whenever "remote" or
\* "hybrid" is an element of the preference list and a substring of
\* job.location, the substring rule has returned 1.0; the results are 0.0,
\* 0.7 and 1.0.
C30_NeverEightTenths ==
    (ReturnedFrom("calculate_location_match") /\ exc = "") =>
        /\ ret # Rat(8, 10)
        /\ ret \in {Zero, Rat(7, 10), One}
        /\ \A mode \in {"remote", "hybrid"} :
              RuleWorkMode(mode) => (RuleSubstring /\ ret = One)

\* "hybrid" is the second preference and the job is a hybrid job elsewhere
C30_Witness ==
    /\ ReturnedFrom("calculate_location_match")
    /\ exc = ""
    /\ Len(call.preferred_locations) = 2
    /\ call.preferred_locations[2] = "hybrid"
    /\ ~Contains(Lower(call.preferred_locations[1]), Lower(call.job_location))
    /\ RuleWorkMode("hybrid")
    /\ ret = One

(***************************************************************************)
(* Claims about the lists the extraction methods return                    *)
(***************************************************************************)
\* no two entries of the list are equal
Distinct(list) == Cardinality(Range(list)) = Len(list)

\* the entries of list before the first entry that is a member of S
LeadingOutside(list, S) ==
    SubSeq(list, 1, Cardinality({n \in DOMAIN list : \A m \in 1..n : list[m] \notin S}))

\* the captures of all labelled patterns in the lowercased text, stripped
LabelledCaptures ==
    UNION { {Strip(FindAllLocations(k, Lower(call.text), 1)[n]) :
                n \in DOMAIN FindAllLocations(k, Lower(call.text), 1)} :
            k \in 1..NumLocationPatterns }

\* the known cities that occur in the lowercased text, in title case
CitiesFound ==
    {Title(common_cities[k]) : k \in {j \in DOMAIN common_cities :
                                         Contains(common_cities[j], Lower(call.text))}}

\* C23: extract_preferred_locations returns no duplicate entries: each
\* labelled-pattern capture is added at most once even when the same location
\* is captured several times, a known city is appended only when not already
\* present, and labelled captures come before city-scan entries.
C23_LocationsDistinct ==
    (ReturnedFrom("extract_preferred_locations") /\ exc = "") =>
        /\ Distinct(ret)
        /\ Distinct(locals.locations)
        /\ \A capture \in LabelledCaptures \ {""} :
              Cardinality({n \in DOMAIN locals.locations :
                              locals.locations[n] = Title(capture)}) = 1
        /\ \A city \in CitiesFound :
              Cardinality({n \in DOMAIN locals.locations : locals.locations[n] = city}) = 1
        /\ \A n, m \in DOMAIN locals.locations :
              ( /\ locals.locations[n] \in {Title(capture) : capture \in LabelledCaptures}
                /\ locals.locations[m] \notin {Title(capture) : capture \in LabelledCaptures} )
                 => n < m

\* the vocabulary terms found in the lowercased text, in title case
VocabularyFound ==
    {CleanSkill(k) : k \in {j \in DOMAIN technical_skills :
                               Contains(technical_skills[j], Lower(call.text))}}

\* C24: extract_skills_from_text returns title-cased skills with no two
\* entries equal when compared case-insensitively, vocabulary matches in
\* vocabulary order first and suffix-pattern captures after them, cut to the
\* first 20.
C24_SkillsDistinctIgnoringCase ==
    (ReturnedFrom("extract_skills_from_text") /\ exc = "") =>
        /\ \A n \in DOMAIN ret : ret[n] = Title(ret[n])
        /\ DistinctIgnoringCase(ret)
        /\ ret = Prefix(locals.skills, 20)
        /\ LeadingOutside(locals.skills, Range(locals.skills) \ VocabularyFound)
              = VocabularySkills(Lower(call.text))

(***************************************************************************)
(* Claims about the rationale                                              *)
(***************************************************************************)
StartupReason == "Company type preference: Startup"

\* C25: the rationale contains the startup reason exactly when the profile's
\* job preferences include the Startup tag and the job's company name
\* contains "startup".
C25_StartupReason ==
    (ReturnedFrom("analyze_resume") /\ exc = "") =>
        \A n \in DOMAIN ret.recommendations :
            Contains(StartupReason, ret.recommendations[n].rationale)
                <=> ( /\ "Startup" \in Range(ret.job_preferences)
                      /\ Contains("startup", Lower(ret.recommendations[n].job.company)) )

(***************************************************************************)
(* The job store of the API (src/api/main.py): the list jobs_storage, the  *)
(* agent's view of it and the file jobs_data.json.  A background scrape    *)
(* task is a coroutine without an await, so it runs from its first         *)
(* statement to its last before another task starts; here `self` holds the *)
(* module's globals and `history` the tasks that have run.                 *)
(***************************************************************************)
MaxBatch == 2   \* most jobs one call of scrape_jobs returns
MaxTasks == 2   \* most background tasks started

\* a posting as NaukriScraper.parse_job_listing builds it
NaukriJob(job_id, title, company, experience, skills) ==
    Job(job_id, title, company, "Pune", experience, skills,
        "Job opening for " \o title \o " at " \o company)

\* a posting as LinkedInScraper.parse_job_listing builds it
LinkedInJob(job_id, title, company) ==
    Job(job_id, title, company, "Bangalore", "", <<>>,
        "Job opening for " \o title \o " at " \o company)

\* job_id is the platform and hash(job_url) % 1000000: two listings of one
\* url, and two urls the hashes of which collide, have the same id
NaukriPostings ==
    { NaukriJob("naukri_417", "Python Developer", "Acme", "2-5 years", <<"Python">>),
      NaukriJob("naukri_417", "Java Developer", "Initech", "5-8 years", <<"Java">>),
      NaukriJob("naukri_52", "Python Developer", "Acme", "3-6 years", <<"Python", "SQL">>) }

LinkedInPostings ==
    { LinkedInJob("linkedin_9", "Data Scientist", "Globex"),
      LinkedInJob("linkedin_9", "Data Scientist", "Globex Research"),
      LinkedInJob("linkedin_30", "Python Developer", "Acme") }

\* what scraper.scrape_jobs(query, limit) can return
NaukriBatches == SeqsUpTo(NaukriPostings, MaxBatch)
LinkedInBatches == SeqsUpTo(LinkedInPostings, MaxBatch)

\* any(existing_job.job_id == job.job_id for existing_job in jobs_storage)
AlreadyStored(job, jobs_storage) ==
    \E n \in DOMAIN jobs_storage : jobs_storage[n].job_id = job.job_id

\* the loop that appends every job of the batch, stored or not
StoreAll(jobs, jobs_storage) == jobs_storage \o jobs

\* for job in jobs: jobs_storage after the loop
RECURSIVE StoreNew(_, _)
StoreNew(jobs, jobs_storage) ==
    IF jobs = <<>> THEN jobs_storage
    ELSE StoreNew(Tail(jobs),
                  IF AlreadyStored(Head(jobs), jobs_storage) THEN jobs_storage
                  ELSE Append(jobs_storage, Head(jobs)))

\* the globals after a background task whose scraper returned `jobs`; the
\* agent, when there is one, holds the list jobs_storage itself; `written`
\* says whether the file could be written
GlobalsAfter(jobs, written) ==
    [self EXCEPT !.jobs_storage = StoreNew(jobs, self.jobs_storage),
                 !.jobs_data = IF self.job_agent THEN StoreNew(jobs, self.jobs_storage) ELSE @,
                 !.jobs_file = IF written THEN StoreNew(jobs, self.jobs_storage) ELSE @]

\* a background task from its first statement to its last
BackgroundTask(op, query, limit, jobs, written) ==
    /\ Len(history) < MaxTasks
    /\ call' = [op |-> op, query |-> query, limit |-> limit]
    /\ self' = GlobalsAfter(jobs, written)
    /\ locals' = [jobs |-> jobs,
                  saved_count |-> Len(StoreNew(jobs, self.jobs_storage)) - Len(self.jobs_storage)]
    /\ ret' = None
    /\ exc' = ""
    /\ pc' = "returned"
    /\ history' = Append(history, op)

\* a background task whose scraper could not be built: the except clause of
\* the task logs the error
BackgroundTaskFails(op, query, limit) ==
    /\ Len(history) < MaxTasks
    /\ call' = [op |-> op, query |-> query, limit |-> limit]
    /\ locals' = None
    /\ ret' = None
    /\ exc' = ""
    /\ pc' = "returned"
    /\ history' = Append(history, op)
    /\ UNCHANGED self

ScrapeQueries == {"software engineer"}
ScrapeLimits == {100}

scrape_naukri_background ==
    \E query \in ScrapeQueries, limit \in ScrapeLimits :
        \/ \E jobs \in NaukriBatches, written \in BOOLEAN :
              BackgroundTask("scrape_naukri_background", query, limit, jobs, written)
        \/ BackgroundTaskFails("scrape_naukri_background", query, limit)

scrape_linkedin_background ==
    \E query \in ScrapeQueries, limit \in ScrapeLimits :
        \/ \E jobs \in LinkedInBatches, written \in BOOLEAN :
              BackgroundTask("scrape_linkedin_background", query, limit, jobs, written)
        \/ BackgroundTaskFails("scrape_linkedin_background", query, limit)

\* lifespan: the store is empty or loaded from the file, and the agent, when
\* there is an API key, is given the list
InitStore ==
    /\ \E loaded \in {<<>>, <<NaukriJob("naukri_417", "Python Developer", "Acme", "2-5 years", <<"Python">>)>>},
          agent \in BOOLEAN :
          self = [jobs_storage |-> loaded, job_agent |-> agent,
                  jobs_data |-> loaded, jobs_file |-> loaded]
    /\ call = None
    /\ ret = None
    /\ exc = ""
    /\ locals = None
    /\ pc = "idle"
    /\ history = <<>>

NextStore == scrape_naukri_background \/ scrape_linkedin_background

SpecStore == InitStore /\ [][NextStore]_vars

(***************************************************************************)
(* Claims about the job store                                              *)
(***************************************************************************)
\* no two jobs of the list have the same job_id
NoDuplicateIds(jobs) ==
    \A n, m \in DOMAIN jobs : jobs[n].job_id = jobs[m].job_id => n = m

\* shorter is the beginning of longer
IsPrefix(shorter, longer) ==
    /\ Len(shorter) <= Len(longer)
    /\ SubSeq(longer, 1, Len(shorter)) = shorter

\* C27: starting from a store without duplicate ids, after any sequence or
\* interleaving of Naukri and LinkedIn background scrape tasks jobs_storage
\* holds no two jobs with the same job_id, and a scrape task never removes
\* or reorders jobs already stored.
C27_StoreIdsUnique ==
    /\ [](NoDuplicateIds(self.jobs_storage))
    /\ [][IsPrefix(self.jobs_storage, self'.jobs_storage)]_vars

\* tasks of both platforms have stored jobs, and the last task left out a
\* job whose id was already stored
C27_Witness ==
    /\ pc = "returned"
    /\ locals # None
    /\ Len(locals.jobs) = 2
    /\ locals.saved_count = 1
    /\ \E n, m \in DOMAIN self.jobs_storage :
          /\ self.jobs_storage[n] \in NaukriPostings
          /\ self.jobs_storage[m] \in LinkedInPostings
    /\ NoDuplicateIds(self.jobs_storage)
    /\ Len(self.jobs_storage) >= 3

(***************************************************************************)
(* The job file of the command-line scraper (src/job_scraper/main.py).     *)
(* save_jobs is a coroutine without an await: it reads jobs_data.json,     *)
(* appends and writes in one step.  Here `self` holds the file.            *)
(***************************************************************************)
MaxSaves == 2   \* most calls of save_jobs

\* what the scrapers hand to save_jobs
SavePostings ==
    { NaukriJob("naukri_417", "Python Developer", "Acme", "2-5 years", <<"Python">>),
      NaukriJob("naukri_52", "Python Developer", "Acme", "3-6 years", <<"Python", "SQL">>),
      LinkedInJob("linkedin_9", "Data Scientist", "Globex") }

SaveBatches == SeqsUpTo(SavePostings, MaxBatch)

\* job.get('title', '') + job.get('company', '') / job.title + job.company
JobKey(job) == job.title \o job.company

\* existing_titles, built once from the records read from the file
ExistingTitles(existing_jobs) ==
    { JobKey(existing_jobs[n]) : n \in DOMAIN existing_jobs }

\* for job in jobs: existing_jobs after the loop; existing_titles stays as
\* it was built before the loop
RECURSIVE AppendNew(_, _, _)
AppendNew(jobs, existing_jobs, existing_titles) ==
    IF jobs = <<>> THEN existing_jobs
    ELSE IF JobKey(Head(jobs)) \in existing_titles
         THEN AppendNew(Tail(jobs), existing_jobs, existing_titles)
         ELSE AppendNew(Tail(jobs), Append(existing_jobs, Head(jobs)), existing_titles)

\* the records read at lines 85-89: none when the file does not exist
ExistingJobs == IF self.file = "json" THEN self.records ELSE <<>>

SaveCompletes(jobs, value, frame) ==
    /\ Len(history) < MaxSaves
    /\ call' = [op |-> "save_jobs", jobs |-> jobs]
    /\ ret' = value
    /\ exc' = ""
    /\ locals' = frame
    /\ pc' = "returned"
    /\ history' = Append(history, "save_jobs")

\* JobScraperManager.save_jobs from its first statement to its last
save_jobs ==
    \E jobs \in SaveBatches :
        \/ /\ self.file = "unreadable"       \* json.load raises
           /\ SaveCompletes(jobs, 0, None)
           /\ UNCHANGED self
        \/ /\ self.file # "unreadable"
           /\ \E written \in BOOLEAN :
                 LET existing_jobs == AppendNew(jobs, ExistingJobs, ExistingTitles(ExistingJobs))
                     saved_count == Len(existing_jobs) - Len(ExistingJobs)
                 IN  /\ SaveCompletes(jobs, IF written THEN saved_count ELSE 0,
                                      [existing_jobs |-> existing_jobs, saved_count |-> saved_count])
                     /\ self' = IF written THEN [file |-> "json", records |-> existing_jobs]
                                ELSE self

\* jobs_data.json before the first call: absent, not JSON, or a list of
\* records without a repeated title and company
InitSave ==
    /\ self \in { [file |-> "missing", records |-> <<>>],
                  [file |-> "unreadable", records |-> <<>>],
                  [file |-> "json", records |-> <<>>],
                  [file |-> "json", records |-> <<LinkedInJob("linkedin_9", "Data Scientist", "Globex")>>] }
    /\ call = None
    /\ ret = None
    /\ exc = ""
    /\ locals = None
    /\ pc = "idle"
    /\ history = <<>>

NextSave == save_jobs

SpecSave == InitSave /\ [][NextSave]_vars

\* C28: after save_jobs returns, the saved job file holds no two records
\* with the same title and company, including when the same title and
\* company occur twice within the batch being saved.
C28_FileTitlesDistinct ==
    ReturnedFrom("save_jobs") =>
        \A n, m \in DOMAIN self.records :
            /\ self.records[n].title = self.records[m].title
            /\ self.records[n].company = self.records[m].company
            => n = m

(***************************************************************************)
(* scrape_jobs of the two scrapers (src/job_scraper/naukri_scraper.py and  *)
(* linkedin_scraper.py).  One step opens the search, one step is one turn  *)
(* of the while loop, one step leaves the loop.  Here `self` is the        *)
(* scraper with its browser: the platform and the number of result pages   *)
(* the driver has loaded; `locals` holds jobs and page.                    *)
(***************************************************************************)
MaxPages == 10      \* while len(jobs) < limit and page <= 10
MaxElements == 2    \* most listings on one result page

Platforms == {"naukri", "linkedin"}

\* limit: int = 100; the endpoints and the command line pass any int
ScrapeJobLimits == {0, 1, 3, 100}

\* what parse_job_listing does with a listing: it returns a Job, returns
\* None (title or company missing, or its own except clause), or raises
Listings == {"job", "none", "raises"}

\* what safe_find_elements can return for one result page
ResultPages == SeqsUpTo(Listings, MaxElements)

\* the Job parse_job_listing returns
ParsedJob(platform) ==
    IF platform = "naukri"
    THEN NaukriJob("naukri_417", "Python Developer", "Acme", "2-5 years", <<"Python">>)
    ELSE LinkedInJob("linkedin_9", "Data Scientist", "Globex")

\* for job_element in job_elements: jobs after the loop
RECURSIVE ParseListings(_, _, _, _)
ParseListings(job_elements, jobs, limit, platform) ==
    IF job_elements = <<>> THEN jobs
    ELSE IF Len(jobs) >= limit THEN jobs
    ELSE ParseListings(Tail(job_elements),
                       IF Head(job_elements) = "job" THEN Append(jobs, ParsedJob(platform))
                       ELSE jobs,
                       limit, platform)

\* return jobs
ScrapeReturns(jobs) ==
    /\ ret' = jobs
    /\ pc' = "returned"
    /\ exc' = ""
    /\ history' = Append(history, "scrape_jobs")

\* the statements before the loop: the search page is loaded, and on
\* LinkedIn the query is typed into the search box
OpenSearch ==
    /\ pc = "idle"
    /\ \E query \in ScrapeQueries, limit \in ScrapeJobLimits :
          call' = [op |-> "scrape_jobs", platform |-> self.platform,
                   query |-> query, limit |-> limit]
    /\ \/ /\ locals' = [jobs |-> <<>>, page |-> 1]
          /\ self' = [self EXCEPT !.pages_loaded = 1]
          /\ pc' = "scraping"
          /\ UNCHANGED <<ret, exc, history>>
       \/ /\ locals' = [jobs |-> <<>>, page |-> 0]     \* driver.get raises
          /\ ScrapeReturns(<<>>)
          /\ UNCHANGED self
       \/ /\ self.platform = "linkedin"                \* no search box
          /\ locals' = [jobs |-> <<>>, page |-> 0]
          /\ ScrapeReturns(<<>>)
          /\ UNCHANGED self

\* while len(jobs) < limit and page <= 10
LoopTest == Len(locals.jobs) < call.limit /\ locals.page <= MaxPages

\* one turn of the while loop
ScrapePage ==
    /\ pc = "scraping"
    /\ LoopTest
    /\ UNCHANGED call
    /\ \/ /\ ScrapeReturns(locals.jobs)                \* the driver raises
          /\ UNCHANGED <<locals, self>>
       \/ \E job_elements \in ResultPages :
             LET jobs == ParseListings(job_elements, locals.jobs, call.limit, self.platform)
             IN  IF job_elements = <<>>
                 THEN /\ ScrapeReturns(locals.jobs)    \* break
                      /\ UNCHANGED <<locals, self>>
                 ELSE IF Len(jobs) < call.limit
                 THEN \/ /\ locals' = [jobs |-> jobs, page |-> locals.page]
                         /\ ScrapeReturns(jobs)        \* no next page: break
                         /\ UNCHANGED self
                      \/ /\ locals' = [jobs |-> jobs, page |-> locals.page + 1]
                         /\ self' = [self EXCEPT !.pages_loaded = @ + 1]
                         /\ UNCHANGED <<ret, exc, pc, history>>
                 ELSE /\ locals' = [jobs |-> jobs, page |-> locals.page]
                      /\ UNCHANGED <<ret, exc, pc, history, self>>

\* the test of the while loop fails
LoopEnds ==
    /\ pc = "scraping"
    /\ ~LoopTest
    /\ ScrapeReturns(locals.jobs)
    /\ UNCHANGED <<call, locals, self>>

\* NaukriScraper() / LinkedInScraper() inside `with`: no page loaded yet
InitScrape ==
    /\ \E platform \in Platforms : self = [platform |-> platform, pages_loaded |-> 0]
    /\ call = None
    /\ ret = None
    /\ exc = ""
    /\ locals = None
    /\ pc = "idle"
    /\ history = <<>>

NextScrape == OpenSearch \/ ScrapePage \/ LoopEnds

SpecScrape == InitScrape /\ [][NextScrape]_vars

\* every statement of scrape_jobs ends: the waits have timeouts and the
\* listings of a page are a finite list, so a run that can take a step
\* takes one
SpecScrapeLive == SpecScrape /\ WF_vars(NextScrape)

\* every run returns
ScrapeTerminates == <>(pc = "returned")

\* a run with limit >= 0 returns at most limit jobs
ScrapeWithinLimit ==
    [](ReturnedFrom("scrape_jobs") /\ call.limit >= 0 => Len(ret) <= call.limit)

\* the listings are read from at most 10 result pages
ScrapeReadsTenPages ==
    [](pc = "scraping" => locals.page <= MaxPages + 1 /\ (LoopTest => locals.page <= MaxPages))

\* the driver loads at most 10 result pages
ScrapeLoadsTenPages == [](self.pages_loaded <= MaxPages)

\* C29: every run of scrape_jobs(query, limit) terminates, returns at most
\* limit jobs, and visits at most 10 result pages, whatever the pages
\* contain and however many listings fail to parse.
C29_ScrapeBounded ==
    /\ ScrapeTerminates
    /\ ScrapeWithinLimit
    /\ ScrapeLoadsTenPages

====
